---------------------------- MODULE Spec2Model ----------------------------
(***************************************************************************)
(* GairiHead: a cross-process hardware lock (src/src/hardware_coordinator) *)
(* shared by the local voice loop (src/main.py) and the websocket server   *)
(* (src/src/gairi_head_server.py), the server's connection handling,       *)
(* authentication, rate limiter and command validation.                     *)
(*                                                                         *)
(* Time inside acquire() is counted in retry intervals of 0.1 s.           *)
(* File objects follow CPython reference counting: rebinding               *)
(* self.lock_fd drops the last reference to the previous file object,      *)
(* which closes its descriptor and, with it, any flock held through it.    *)
(***************************************************************************)
EXTENDS Integers, Sequences, FiniteSets, TLC

\* ------------------------------------------------------------------ bounds
NClients == 2
MaxCount == 2
MaxTime == 2
MaxViolations == 7
MaxSends == 2
MaxTimeout == 2
MaxWait == 6
MaxAngle == 1
MaxTimers == 3

\* ------------------------------------------------------- program constants
RETRY_TICKS_PER_SECOND == 10
REMOTE_TIMEOUT == 5 * RETRY_TICKS_PER_SECOND
SPEAK_TIMEOUT == 10 * RETRY_TICKS_PER_SECOND
LOCAL_TIMEOUT == 5

max_connections == 10
requests_per_minute == 30
window_seconds == 60

Procs == {"local", "remote"}
Conns == 1..NClients
AllConns == 1..(max_connections + 1)

LOCK_ACTIONS == {"set_expression", "speak", "blink", "test_sync"}

VARIABLES
    flock,          \* process whose open file description holds the flock
    lock_fd,        \* per process: coordinator.lock_fd ("None" or "open")
    is_locked,      \* per process: coordinator.is_locked
    lock_content,   \* annotation written into the lock file
    lpc,            \* local process: position in handle_interaction
    ltries,         \* local process: retry intervals slept in acquire
    ltimeout,       \* local process: timeout of the acquire call in progress, in retry intervals
    local_display,  \* local process: self.arduino_display ("None", "connected", "disconnected")
    running,        \* server: connection whose coroutine is on the event loop (0: none)
    cmd,            \* server: per connection, the command in progress
    servo_controller, \* server: lazily created servo handle
    arduino_display,  \* server: lazily created display handle
    camera_manager,   \* server: lazily created camera handle
    api_token,        \* server: configured token ("None" when absent)
    conn,             \* per connection: position in handle_client
    active_connections, \* server: set of admitted connections
    first_msg,        \* per connection: first message received after admission
    auth_reply,       \* per connection: status of the reply to the first message
    message,          \* per connection: the message the loop of handle_client is handling
    now,              \* time.time(), in seconds
    request_history,  \* rate limiter: per connection, recorded timestamps
    violations,       \* rate limiter: per connection, violation counter
    voice_handler,    \* server: lazily created voice handler
    expression_engine, \* server: lazily created expression engine
    is_running,       \* server: the is_running flag
    server_task,      \* main: the task running server.start()
    shutdown_event,   \* main: the event set by the signal handler
    main_pc,          \* main: position in main() and shutdown_gracefully()
    to_notify,        \* shutdown_gracefully: connections of the for loop still to visit
    close_tasks,      \* shutdown_gracefully: connections whose close() is awaited
    waited,           \* seconds shutdown_gracefully has spent suspended
    close_started,    \* value of waited when the wait for the closes began
    stalled,          \* per connection: the client does not read, a send blocks
    cleanup_attempted, \* cleanup(): steps whose try block was entered
    cleanup_raised,   \* cleanup(): steps whose try block raised
    servo_value,      \* ServoController: per servo, its .value (an angle, Detached for None)
    current_angle,    \* ServoController: current_left, current_right, current_mouth
    movement_lock,    \* ServoController: thread holding movement_lock ("none" when free)
    speech_animation_active, \* ServoController: the flag of that name
    detach_timer,     \* ServoController: _detach_timer, the number of the last timer made (0: None)
    timers,           \* the threading.Timer objects made: state and seconds left
    move,             \* the calling thread: its position in set_left_eyelid/set_right_eyelid/set_mouth
    idle_for,         \* seconds since a movement call was last entered or left
    anim_pc,          \* the speech animation thread
    in_interaction,   \* local process: the in_interaction flag
    exit_path,        \* local process: how the try block of handle_interaction was left
    local_servos,     \* local process: self.servo_controller ("None" or "open")
    local_camera      \* local process: the camera of self.camera ("closed" or "open")

lockVars == <<flock, lock_fd, is_locked, lock_content>>
interVars == <<in_interaction, exit_path, local_servos, local_camera>>
localVars == <<lpc, ltries, ltimeout, local_display, interVars>>
devVars == <<servo_controller, arduino_display, camera_manager>>
connVars == <<api_token, conn, active_connections, first_msg, auth_reply, message>>
rateVars == <<now, request_history, violations>>
mainVars == <<voice_handler, expression_engine, is_running, server_task,
              shutdown_event, main_pc, to_notify, close_tasks, waited,
              close_started, stalled, cleanup_attempted, cleanup_raised>>
servoVars == <<servo_value, current_angle, movement_lock, speech_animation_active,
               detach_timer, timers, move, idle_for, anim_pc>>
vars == <<flock, lock_fd, is_locked, lock_content, lpc, ltries, ltimeout,
          local_display, running, cmd,
          servo_controller, arduino_display, camera_manager,
          api_token, conn, active_connections, first_msg, auth_reply, message,
          now, request_history, violations,
          voice_handler, expression_engine, is_running, server_task,
          shutdown_event, main_pc, to_notify, close_tasks, waited,
          close_started, stalled, cleanup_attempted, cleanup_raised,
          servo_value, current_angle, movement_lock, speech_animation_active,
          detach_timer, timers, move, idle_for, anim_pc,
          in_interaction, exit_path, local_servos, local_camera>>

\* Messages are what json.loads makes of the received text: "notjson"
\* raises JSONDecodeError, "list" and "number" decode to values that are not
\* objects, "object" decodes to a dict.  "none" and "timeout" mark that no
\* message was received.
Message(json) ==
    [json |-> json, token |-> "absent", action |-> "absent",
     params |-> "absent", text_kind |-> "absent", text_len |-> 0,
     expr_kind |-> "absent", expr_len |-> 0,
     duration_kind |-> "absent", duration |-> 30,
     quality_kind |-> "absent", quality |-> 85, count |-> 1]
NoMessage == Message("none")

IdleCmd == [pc |-> "idle", action |-> "none", tries |-> 0, left |-> 0,
            got |-> FALSE, rel |-> FALSE,
            resp |-> [status |-> "none", error |-> "", detail |-> ""]]

\* ------------------------------------------------ ServoController
\* seconds: self.detach_delay = 2.0
DETACH_DELAY == 2

\* mouth_config['neutral_angle'], and the neutral angle of the eyelids.
NEUTRAL_ANGLE == 0

Servos == {"left", "right", "mouth"}
Angles == 0..MaxAngle

\* servo.value is None: detach() has stopped the pulses.
Detached == 0 - 1

IdleMove == [pc |-> "idle", servo |-> "none", angle |-> 0, spanned |-> FALSE]
NoTimer == [state |-> "none", left |-> 0]

\* A ServoController after its constructor: reset_to_neutral() has moved
\* the three servos to their neutral angles, and the last of its movements
\* has scheduled the detach timer.
ServoInit ==
    /\ servo_value = [s \in Servos |-> NEUTRAL_ANGLE]
    /\ current_angle = [s \in Servos |-> NEUTRAL_ANGLE]
    /\ movement_lock = "none"
    /\ speech_animation_active = FALSE
    /\ detach_timer = 1
    /\ timers = [t \in 1..MaxTimers |->
                    IF t = 1 THEN [state |-> "waiting", left |-> DETACH_DELAY]
                    ELSE NoTimer]
    /\ move = IdleMove
    /\ idle_for = 0
    /\ anim_pc = "none"

\* The variables no method of the ServoController touches.
serverVars == <<lockVars, localVars, running, cmd, devVars, connVars, rateVars, mainVars>>

\* _schedule_detach: cancel the timer _detach_timer refers to (which has an
\* effect only while that timer waits), then make and start a new one.
schedule_detach ==
    /\ timers' = [t \in 1..MaxTimers |->
                     IF t = detach_timer + 1
                     THEN [state |-> "waiting", left |-> DETACH_DELAY]
                     ELSE IF t = detach_timer /\ timers[t].state = "waiting"
                     THEN [timers[t] EXCEPT !.state = "cancelled"]
                     ELSE timers[t]]
    /\ detach_timer' = detach_timer + 1

\* set_left_eyelid, set_right_eyelid, set_mouth up to the transition: take
\* movement_lock and _attach_servos(), which sets the three servos to their
\* current angles (set_mouth skips it during speech animation).  A call of
\* set_mouth(neutral) is the end of stop_speech_animation.
BeginMove(s, angle) ==
    /\ \/ move.pc = "idle"
       \/ move.pc = "stopping" /\ s = "mouth" /\ angle = NEUTRAL_ANGLE
    /\ movement_lock = "none"
    /\ detach_timer < MaxTimers
    /\ movement_lock' = "caller"
    /\ servo_value' = IF s = "mouth" /\ speech_animation_active
                      THEN servo_value ELSE current_angle
    /\ move' = [pc |-> "moving", servo |-> s, angle |-> angle, spanned |-> FALSE]
    /\ idle_for' = 0
    /\ UNCHANGED <<serverVars, current_angle, speech_animation_active, detach_timer,
                   timers, anim_pc>>

\* The transition has reached its target: the servo's value is the target,
\* current_* = angle, _schedule_detach() (set_mouth skips it during speech
\* animation), and movement_lock is released.
EndMove ==
    /\ move.pc = "moving"
    /\ servo_value' = [servo_value EXCEPT ![move.servo] = move.angle]
    /\ current_angle' = [current_angle EXCEPT ![move.servo] = move.angle]
    /\ IF move.servo = "mouth" /\ speech_animation_active
       THEN UNCHANGED <<timers, detach_timer>>
       ELSE schedule_detach
    /\ movement_lock' = "none"
    /\ move' = IdleMove
    /\ idle_for' = 0
    /\ UNCHANGED <<serverVars, speech_animation_active, anim_pc>>

\* servo.close() has released the servo's GPIO pin.
Released == 0 - 2

IsClosed == \A s \in Servos : servo_value[s] = Released

\* close(): the timer is looked up as self.detach_timer, an attribute the
\* controller does not have (it is _detach_timer), so nothing is cancelled;
\* the three servos are closed.  The caller drops the controller.
close ==
    /\ move.pc = "idle"
    /\ ~IsClosed
    /\ servo_value' = [s \in Servos |-> Released]
    /\ UNCHANGED <<serverVars, current_angle, movement_lock, speech_animation_active,
                   detach_timer, timers, move, idle_for, anim_pc>>

\* The timer thread: detach_delay has passed without cancel():
\* _detach_servos() detaches the three servos; it takes no lock.  On
\* closed servos detach() raises, which _detach_servos logs.
TimerFires(t) ==
    /\ timers[t].state = "waiting"
    /\ timers[t].left = 0
    /\ timers' = [timers EXCEPT ![t].state = "fired"]
    /\ servo_value' = IF IsClosed THEN servo_value ELSE [s \in Servos |-> Detached]
    /\ UNCHANGED <<serverVars, current_angle, movement_lock, speech_animation_active,
                   detach_timer, move, idle_for, anim_pc>>

\* A second passes: a timer that is due fires first; a transition to
\* another angle (0.2 to 0.3 s of time.sleep) is under way across at most
\* one such instant, a call with the current angle returns at once.
ServoTick ==
    /\ \A t \in 1..MaxTimers : timers[t].state = "waiting" => timers[t].left > 0
    /\ move.pc = "moving" =>
          (~move.spanned /\ move.angle # current_angle[move.servo])
    /\ timers' = [t \in 1..MaxTimers |->
                     IF timers[t].state = "waiting"
                     THEN [timers[t] EXCEPT !.left = @ - 1] ELSE timers[t]]
    /\ idle_for' = IF idle_for < DETACH_DELAY THEN idle_for + 1 ELSE idle_for
    /\ move' = IF move.pc = "moving" THEN [move EXCEPT !.spanned = TRUE] ELSE move
    /\ UNCHANGED <<serverVars, servo_value, current_angle, movement_lock,
                   speech_animation_active, detach_timer, anim_pc>>

\* start_speech_animation: cancel the pending timer, set the mouth to its
\* neutral angle and current_mouth with it, detach the eyelids, start the
\* animation thread.
StartSpeech ==
    /\ ~speech_animation_active
    /\ move.pc = "idle"
    /\ anim_pc # "loop"
    /\ timers' = [t \in 1..MaxTimers |->
                     IF t = detach_timer /\ timers[t].state = "waiting"
                     THEN [timers[t] EXCEPT !.state = "cancelled"] ELSE timers[t]]
    /\ servo_value' = [s \in Servos |-> IF s = "mouth" THEN NEUTRAL_ANGLE ELSE Detached]
    /\ current_angle' = [current_angle EXCEPT !["mouth"] = NEUTRAL_ANGLE]
    /\ speech_animation_active' = TRUE
    /\ anim_pc' = IF anim_pc = "none" THEN "loop" ELSE anim_pc
    /\ UNCHANGED <<serverVars, movement_lock, detach_timer, move, idle_for>>

\* _speech_animation_loop, one frame: "with self.movement_lock:" and inside
\* it set_mouth(), which takes movement_lock again: threading.Lock is not
\* reentrant, so the thread waits for itself.
AnimFrame ==
    /\ anim_pc = "loop"
    /\ speech_animation_active
    /\ movement_lock = "none"
    /\ movement_lock' = "animation"
    /\ anim_pc' = "deadlocked"
    /\ UNCHANGED <<serverVars, servo_value, current_angle, speech_animation_active,
                   detach_timer, timers, move, idle_for>>

\* _speech_animation_loop: the flag is False, the loop and the thread end.
AnimExit ==
    /\ anim_pc = "loop"
    /\ ~speech_animation_active
    /\ anim_pc' = "none"
    /\ UNCHANGED <<serverVars, servo_value, current_angle, movement_lock,
                   speech_animation_active, detach_timer, timers, move, idle_for>>

\* stop_speech_animation: clear the flag, join the thread for at most 1 s,
\* then set_mouth(neutral_angle).
StopSpeech ==
    /\ speech_animation_active
    /\ move.pc = "idle"
    /\ speech_animation_active' = FALSE
    /\ move' = [IdleMove EXCEPT !.pc = "stopping"]
    /\ UNCHANGED <<serverVars, servo_value, current_angle, movement_lock,
                   detach_timer, timers, idle_for, anim_pc>>

\* VoiceHandler.speak with Piper, before playback: cancel the pending
\* timer, set the mouth to neutral (and current_mouth), set the eyelids to
\* current_left and current_right, open the output stream.  None of this
\* takes movement_lock.
StartStream ==
    /\ anim_pc = "none"
    /\ ~speech_animation_active
    /\ move.pc = "idle"
    /\ timers' = [t \in 1..MaxTimers |->
                     IF t = detach_timer /\ timers[t].state = "waiting"
                     THEN [timers[t] EXCEPT !.state = "cancelled"] ELSE timers[t]]
    /\ servo_value' = [current_angle EXCEPT !["mouth"] = NEUTRAL_ANGLE]
    /\ current_angle' = [current_angle EXCEPT !["mouth"] = NEUTRAL_ANGLE]
    /\ anim_pc' = "stream"
    /\ UNCHANGED <<serverVars, movement_lock, speech_animation_active, detach_timer,
                   move, idle_for>>

\* audio_callback, on the audio thread, once per 30 ms block: mouth.value
\* and current_mouth follow the amplitude; now and then both eyelids are
\* closed, and three blocks later set to current_left and current_right.
\* The callback takes no lock.
AudioCallback(mouth_pos, eyes) ==
    /\ anim_pc = "stream"
    /\ servo_value' =
          [s \in Servos |->
              IF s = "mouth" THEN mouth_pos
              ELSE IF eyes = "blink" THEN 0
              ELSE IF eyes = "reopen" THEN current_angle[s]
              ELSE servo_value[s]]
    /\ current_angle' = [current_angle EXCEPT !["mouth"] = mouth_pos]
    /\ UNCHANGED <<serverVars, movement_lock, speech_animation_active, detach_timer,
                   timers, move, idle_for, anim_pc>>

\* The audio has been played: the stream is closed and speak calls
\* set_mouth(neutral), which waits for movement_lock.
EndStream ==
    /\ anim_pc = "stream"
    /\ move.pc = "idle"
    /\ anim_pc' = "none"
    /\ move' = [IdleMove EXCEPT !.pc = "stopping"]
    /\ UNCHANGED <<serverVars, servo_value, current_angle, movement_lock,
                   speech_animation_active, detach_timer, timers, idle_for>>

\* The handles created lazily by the _get_* methods, None at construction.
NoHandles ==
    [camera_manager |-> "None", servo_controller |-> "None",
     arduino_display |-> "None", voice_handler |-> "None",
     expression_engine |-> "None"]

\* The state in which main() awaits the shutdown event: the server is
\* constructed with the given token, the task running start() is in the
\* given state and the handles are as given; the local process is idle.
InitMain(token, task, handles) ==
    /\ api_token = token
    /\ conn = [c \in AllConns |-> "closed"]
    /\ active_connections = {}
    /\ first_msg = [c \in AllConns |-> NoMessage]
    /\ auth_reply = [c \in AllConns |-> "none"]
    /\ message = [c \in AllConns |-> NoMessage]
    /\ now = 0
    /\ request_history = [c \in AllConns |-> <<>>]
    /\ violations = [c \in AllConns |-> 0]
    /\ flock = "none"
    /\ lock_fd = [p \in Procs |-> "None"]
    /\ is_locked = [p \in Procs |-> FALSE]
    /\ lock_content = ""
    /\ lpc = "idle"
    /\ ltries = 0
    /\ ltimeout = 0
    /\ local_display = "None"
    /\ running = 0
    /\ cmd = [c \in AllConns |-> IdleCmd]
    /\ servo_controller = handles.servo_controller
    /\ arduino_display = handles.arduino_display
    /\ camera_manager = handles.camera_manager
    /\ voice_handler = handles.voice_handler
    /\ expression_engine = handles.expression_engine
    /\ is_running = (task # "created")
    /\ server_task = task
    /\ shutdown_event = FALSE
    /\ main_pc = "wait"
    /\ to_notify = <<>>
    /\ close_tasks = {}
    /\ waited = 0
    /\ close_started = 0
    /\ stalled = [c \in AllConns |-> FALSE]
    /\ cleanup_attempted = <<>>
    /\ cleanup_raised = {}
    /\ ServoInit
    /\ in_interaction = FALSE
    /\ exit_path = "none"
    /\ local_servos = "None"
    /\ local_camera = "closed"

\* The server is listening and no handle has been created yet.
InitWith(token) == InitMain(token, "serving", NoHandles)

Init == InitWith("good")

\* ------------------------------------------------- HardwareCoordinator
\* self.lock_fd = open(self.lock_file, 'w'): truncates the file and rebinds
\* lock_fd; the previous file object of this process is closed.
OpenLockFile(p) ==
    /\ lock_fd' = [lock_fd EXCEPT ![p] = "open"]
    /\ flock' = IF flock = p THEN "none" ELSE flock
    /\ lock_content' = ""
    /\ UNCHANGED is_locked

\* fcntl.flock(LOCK_EX | LOCK_NB) succeeded: annotate, set is_locked.
FlockSucceeds(p) ==
    /\ flock = "none"
    /\ flock' = p
    /\ lock_content' = p
    /\ is_locked' = [is_locked EXCEPT ![p] = TRUE]
    /\ UNCHANGED lock_fd

\* IOError and elapsed >= timeout: close the descriptor, return False.
AcquireTimesOut(p) ==
    /\ flock # "none"
    /\ lock_fd' = [lock_fd EXCEPT ![p] = "None"]
    /\ UNCHANGED <<flock, is_locked, lock_content>>

\* release() that unlocks the lock file whether or not this coordinator
\* holds it.
release_unowned(p) ==
    /\ flock' = "none"
    /\ is_locked' = [is_locked EXCEPT ![p] = FALSE]
    /\ lock_fd' = [lock_fd EXCEPT ![p] = "None"]
    /\ UNCHANGED lock_content

release(p) ==
    IF is_locked[p] /\ lock_fd[p] = "open"
    THEN /\ flock' = IF flock = p THEN "none" ELSE flock
         /\ is_locked' = [is_locked EXCEPT ![p] = FALSE]
         /\ lock_fd' = [lock_fd EXCEPT ![p] = "None"]
         /\ UNCHANGED lock_content
    ELSE UNCHANGED lockVars

\* acquire(): one pass of the while loop after open(): either the flock is
\* taken (True), or IOError with the timeout reached (False), or IOError
\* followed by time.sleep(0.1) and another pass.
\* The remote handlers calling acquire with the local loop's timeout.
TimeoutAsLocal(action) == LOCAL_TIMEOUT

Timeout(action) == IF action = "speak" THEN SPEAK_TIMEOUT ELSE REMOTE_TIMEOUT

\* ------------------------------------------------ local loop (main.py)
\* handle_interaction passes the in_interaction and cooldown guards and
\* calls coordinator.acquire(timeout=0.5, is_remote=False).
LocalTrigger ==
    /\ lpc = "idle"
    /\ lpc' = "open"
    /\ ltries' = 0
    /\ ltimeout' = LOCAL_TIMEOUT
    /\ UNCHANGED <<lockVars, local_display, running, cmd, devVars, connVars, rateVars,
                   mainVars, servoVars, interVars>>

LocalOpen ==
    /\ lpc = "open"
    /\ OpenLockFile("local")
    /\ lpc' = "flock"
    /\ UNCHANGED <<ltries, ltimeout, local_display, running, cmd, devVars, connVars, rateVars,
                   mainVars, servoVars, interVars>>

LocalFlockOk ==
    /\ lpc = "flock"
    /\ FlockSucceeds("local")
    /\ lpc' = "hold"
    /\ ltries' = 0
    /\ ltimeout' = 0
    /\ UNCHANGED <<local_display, running, cmd, devVars, connVars, rateVars, mainVars,
                   servoVars, interVars>>

\* The retry test written with <= : one more pass once the timeout is reached.
LocalRetryAllowedLate == ltries <= ltimeout

\* not (elapsed >= timeout)
LocalRetryAllowed == ltries < ltimeout

LocalFlockRetry ==
    /\ lpc = "flock"
    /\ flock # "none"
    /\ LocalRetryAllowed
    /\ ltries' = ltries + 1
    /\ lpc' = "open"
    /\ UNCHANGED <<lockVars, ltimeout, local_display, running, cmd, devVars, connVars, rateVars,
                   mainVars, servoVars, interVars>>

\* acquire returned False: with a connected display the busy branch calls
\* arduino_display.show_conversation before it returns.
AfterBusy == IF local_display = "connected" THEN "notice" ELSE "idle"

\* acquire returned False: "Gary is using GairiHead remotely".
LocalFlockTimeout ==
    /\ lpc = "flock"
    /\ ~LocalRetryAllowed
    /\ AcquireTimesOut("local")
    /\ lpc' = AfterBusy
    /\ ltries' = 0
    /\ ltimeout' = 0
    /\ UNCHANGED <<local_display, running, cmd, devVars, connVars, rateVars, mainVars,
                   servoVars, interVars>>

\* show_conversation(gairi_text="Gary is using me remotely...") is written
\* to the display; return.
LocalNotice ==
    /\ lpc = "notice"
    /\ local_display = "connected"
    /\ lpc' = "idle"
    /\ UNCHANGED <<lockVars, ltries, ltimeout, local_display, running, cmd, devVars,
                   connVars, rateVars, mainVars, servoVars, interVars>>

\* The body of the interaction (try block) runs to its end or raises.
LocalInteract ==
    /\ lpc = "hold"
    /\ lpc' = "finally"
    /\ UNCHANGED <<lockVars, ltries, ltimeout, local_display, running, cmd, devVars,
                   connVars, rateVars, mainVars, servoVars,
                   exit_path, local_servos, local_camera>>
    /\ in_interaction' = TRUE

\* finally: close a connected display, coordinator.release();
\* in_interaction = False.
LocalFinally ==
    /\ lpc = "finally"
    /\ release("local")
    /\ local_display' = IF local_display = "connected" THEN "disconnected"
                        ELSE local_display
    /\ lpc' = "idle"
    /\ ltries' = 0
    /\ UNCHANGED <<ltimeout, running, cmd, devVars, connVars, rateVars, mainVars,
                   servoVars,
                   exit_path, local_servos, local_camera>>
    /\ in_interaction' = FALSE

Local ==
    \/ LocalTrigger \/ LocalOpen \/ LocalFlockOk \/ LocalFlockRetry
    \/ LocalFlockTimeout \/ LocalInteract \/ LocalFinally

\* run_production_mode: the display is (re)connected before the loop polls
\* it for a touch; a failed connection leaves a disconnected instance.
LocalReconnect ==
    /\ lpc = "idle"
    /\ local_display # "connected"
    /\ local_display' \in {"connected", "disconnected"}
    /\ local_display' # local_display
    /\ UNCHANGED <<lockVars, lpc, ltries, ltimeout, running, cmd, devVars, connVars, rateVars,
                   mainVars, servoVars, interVars>>

\* ------------------------------- handle_interaction, step by step
\* The variables of the server process and of its ServoController, which
\* the local process does not touch.
remoteVars == <<running, cmd, devVars, connVars, rateVars, mainVars, servoVars>>

\* try: in_interaction = True; the ServoController is created when there
\* is none (a failure leaves servo_controller None).
InteractionBegin ==
    /\ lpc = "hold"
    /\ lpc' = "scan"
    /\ in_interaction' = TRUE
    /\ exit_path' = "none"
    /\ local_servos' \in {"open", "None"}
    /\ UNCHANGED <<lockVars, ltries, ltimeout, local_display, local_camera, remoteVars>>

\* The display is told "scanning" (a write that can raise, which leaves the
\* try block), then get_authorization(): without a camera it returns at
\* once, otherwise read_frame() opens the camera on first use.
InteractionScan ==
    /\ lpc = "scan"
    /\ \/ /\ local_display = "connected"
          /\ lpc' = "close_servos"
          /\ exit_path' = "raised"
          /\ UNCHANGED local_camera
       \/ /\ lpc' = "faces"
          /\ local_camera' \in {"open", "closed"}
          /\ UNCHANGED exit_path
    /\ UNCHANGED <<lockVars, ltries, ltimeout, local_display, in_interaction,
                   local_servos, remoteVars>>

\* get_authorization() detects and recognises, or fails; its finally block
\* closes the camera.  The result goes to the display (a write that can
\* raise) and handle_interaction sleeps 0.5 s.
InteractionAuthorized ==
    /\ lpc = "faces"
    /\ local_camera' = "closed"
    /\ \/ /\ local_display = "connected"
          /\ lpc' = "close_servos"
          /\ exit_path' = "raised"
       \/ /\ lpc' = "voice"
          /\ UNCHANGED exit_path
    /\ UNCHANGED <<lockVars, ltries, ltimeout, local_display, in_interaction,
                   local_servos, remoteVars>>

\* The ways out of the voice step: return without audio, return without a
\* transcription, return after a special command, an exception (logged by
\* the inner except), or the end of the conversation.
EXIT_PATHS == {"no_audio", "no_transcription", "special", "raised", "complete"}

InteractionVoice ==
    /\ lpc = "voice"
    /\ lpc' = "close_servos"
    /\ exit_path' \in EXIT_PATHS
    /\ UNCHANGED <<lockVars, ltries, ltimeout, local_display, in_interaction,
                   local_servos, local_camera, remoteVars>>

\* The servo controller left open by the finally block.
FinallyKeepServos ==
    /\ lpc = "close_servos"
    /\ lpc' = "close_display"
    /\ UNCHANGED <<lockVars, ltries, ltimeout, local_display, in_interaction, exit_path,
                   local_servos, local_camera, remoteVars>>

\* finally: servo_controller.close(); servo_controller = None.
FinallyCloseServos ==
    /\ lpc = "close_servos"
    /\ lpc' = "close_display"
    /\ local_servos' = "None"
    /\ UNCHANGED <<lockVars, ltries, ltimeout, local_display, in_interaction, exit_path,
                   local_camera, remoteVars>>

\* finally: a connected display is closed.
FinallyCloseDisplay ==
    /\ lpc = "close_display"
    /\ lpc' = "release"
    /\ local_display' = IF local_display = "connected" THEN "disconnected"
                        ELSE local_display
    /\ UNCHANGED <<lockVars, ltries, ltimeout, interVars, remoteVars>>

\* release() called at the end of the try block: reached only when the
\* block runs to its end.
ReleaseAtEndOfTry ==
    /\ lpc = "release"
    /\ lpc' = "reset"
    /\ IF exit_path = "complete" THEN release("local") ELSE UNCHANGED lockVars
    /\ UNCHANGED <<ltries, ltimeout, local_display, interVars, remoteVars>>

\* finally: coordinator.release().
FinallyRelease ==
    /\ lpc = "release"
    /\ lpc' = "reset"
    /\ release("local")
    /\ UNCHANGED <<ltries, ltimeout, local_display, interVars, remoteVars>>

\* finally: in_interaction = False; handle_interaction returns.
FinallyReset ==
    /\ lpc = "reset"
    /\ lpc' = "idle"
    /\ in_interaction' = FALSE
    /\ UNCHANGED <<lockVars, ltries, ltimeout, local_display, exit_path, local_servos,
                   local_camera, remoteVars>>

Interaction ==
    \/ LocalTrigger \/ LocalOpen \/ LocalFlockOk \/ LocalFlockRetry
    \/ LocalFlockTimeout \/ LocalNotice \/ LocalReconnect
    \/ InteractionBegin \/ InteractionScan \/ InteractionAuthorized
    \/ InteractionVoice \/ FinallyCloseServos \/ FinallyCloseDisplay
    \/ FinallyRelease \/ FinallyReset

\* ------------------------------------------- commands and validation
ALLOWED_ACTIONS ==
    {"capture_snapshot", "record_audio", "analyze_scene", "get_status",
     "set_expression", "detect_faces", "speak", "blink", "test_sync"}

MAX_TEXT_LEN == 5000
MAX_EXPRESSION_LEN == 50

\* A decoded JSON object.  Absent fields and values of the wrong type are
\* tags; string values are represented by their length, durations are in
\* tenths of a second.
Command(action) ==
    [Message("object") EXCEPT !.action = action, !.params = "dict",
                              !.text_kind = "str", !.text_len = 5,
                              !.expr_kind = "str", !.expr_len = 5]

\* params.get(name): params defaults to {} when absent.
Param(command, kind) == IF command.params = "dict" THEN command[kind] ELSE "absent"

OkResponse == [status |-> "success", error |-> "", detail |-> ""]
ErrorResponse(error, detail) == [status |-> "error", error |-> error, detail |-> detail]
NoError == [status |-> "valid", error |-> "", detail |-> ""]

\* The length test written with >= : a text of MAX_TEXT_LEN is refused.
TextTooLongInclusive(command) == command.text_len >= MAX_TEXT_LEN

\* len(text) > 5000
TextTooLong(command) == command.text_len > MAX_TEXT_LEN

\* The params type check made before the whitelist check.
validate_command_params_first(command) ==
    IF command.action \in {"absent", "empty"}
    THEN ErrorResponse("Missing required field: 'action'", "")
    ELSE IF command.action = "nonstring"
    THEN ErrorResponse("Field 'action' must be a string", "")
    ELSE IF command.params = "notdict"
    THEN ErrorResponse("Field 'params' must be a dictionary", "")
    ELSE IF command.action \notin ALLOWED_ACTIONS
    THEN ErrorResponse("Unknown action", command.action)
    ELSE IF command.action = "speak"
    THEN IF Param(command, "text_kind") = "absent" \/
            (Param(command, "text_kind") = "str" /\ command.text_len = 0)
         THEN ErrorResponse("Missing required parameter 'text'", "")
         ELSE IF Param(command, "text_kind") = "nonstring"
         THEN ErrorResponse("Parameter 'text' must be a string", "")
         ELSE IF TextTooLong(command)
         THEN ErrorResponse("Parameter 'text' exceeds maximum length", "")
         ELSE NoError
    ELSE IF command.action = "set_expression"
    THEN IF Param(command, "expr_kind") = "absent" \/
            (Param(command, "expr_kind") = "str" /\ command.expr_len = 0)
         THEN ErrorResponse("Missing required parameter 'expression'", "")
         ELSE IF Param(command, "expr_kind") = "nonstring"
         THEN ErrorResponse("Parameter 'expression' must be a string", "")
         ELSE IF command.expr_len > MAX_EXPRESSION_LEN
         THEN ErrorResponse("Parameter 'expression' too long", "")
         ELSE NoError
    ELSE IF command.action = "record_audio"
    THEN IF Param(command, "duration_kind") = "absent"
         THEN NoError
         ELSE IF Param(command, "duration_kind") = "nonnumber"
         THEN ErrorResponse("Parameter 'duration' must be a number", "")
         ELSE IF command.duration < 1 \/ command.duration > 600
         THEN ErrorResponse("Parameter 'duration' must be between 0.1 and 60 seconds", "")
         ELSE NoError
    ELSE IF command.action = "capture_snapshot"
    THEN IF Param(command, "quality_kind") = "absent"
         THEN NoError
         ELSE IF Param(command, "quality_kind") = "nonint"
         THEN ErrorResponse("Parameter 'quality' must be an integer", "")
         ELSE IF command.quality < 1 \/ command.quality > 100
         THEN ErrorResponse("Parameter 'quality' must be between 1 and 100", "")
         ELSE NoError
    ELSE NoError

\* _validate_command: the error it returns, NoError for None.
validate_command(command) ==
    IF command.action \in {"absent", "empty"}
    THEN ErrorResponse("Missing required field: 'action'", "")
    ELSE IF command.action = "nonstring"
    THEN ErrorResponse("Field 'action' must be a string", "")
    ELSE IF command.action \notin ALLOWED_ACTIONS
    THEN ErrorResponse("Unknown action", command.action)
    ELSE IF command.params = "notdict"
    THEN ErrorResponse("Field 'params' must be a dictionary", "")
    ELSE IF command.action = "speak"
    THEN IF Param(command, "text_kind") = "absent" \/
            (Param(command, "text_kind") = "str" /\ command.text_len = 0)
         THEN ErrorResponse("Missing required parameter 'text'", "")
         ELSE IF Param(command, "text_kind") = "nonstring"
         THEN ErrorResponse("Parameter 'text' must be a string", "")
         ELSE IF TextTooLong(command)
         THEN ErrorResponse("Parameter 'text' exceeds maximum length", "")
         ELSE NoError
    ELSE IF command.action = "set_expression"
    THEN IF Param(command, "expr_kind") = "absent" \/
            (Param(command, "expr_kind") = "str" /\ command.expr_len = 0)
         THEN ErrorResponse("Missing required parameter 'expression'", "")
         ELSE IF Param(command, "expr_kind") = "nonstring"
         THEN ErrorResponse("Parameter 'expression' must be a string", "")
         ELSE IF command.expr_len > MAX_EXPRESSION_LEN
         THEN ErrorResponse("Parameter 'expression' too long", "")
         ELSE NoError
    ELSE IF command.action = "record_audio"
    THEN IF Param(command, "duration_kind") = "absent"
         THEN NoError
         ELSE IF Param(command, "duration_kind") = "nonnumber"
         THEN ErrorResponse("Parameter 'duration' must be a number", "")
         ELSE IF command.duration < 1 \/ command.duration > 600
         THEN ErrorResponse("Parameter 'duration' must be between 0.1 and 60 seconds", "")
         ELSE NoError
    ELSE IF command.action = "capture_snapshot"
    THEN IF Param(command, "quality_kind") = "absent"
         THEN NoError
         ELSE IF Param(command, "quality_kind") = "nonint"
         THEN ErrorResponse("Parameter 'quality' must be an integer", "")
         ELSE IF command.quality < 1 \/ command.quality > 100
         THEN ErrorResponse("Parameter 'quality' must be between 1 and 100", "")
         ELSE NoError
    ELSE NoError

\* handle_command, after validation: route to the handler.  The handlers of
\* LOCK_ACTIONS begin with coordinator.acquire(); the others run their body
\* at once.  The else branch is the "should never reach here" default.
Route(c, command) ==
    IF command.action \in ALLOWED_ACTIONS
    THEN cmd' = [cmd EXCEPT ![c] =
                    [pc |-> IF command.action \in LOCK_ACTIONS THEN "open" ELSE "body",
                     action |-> command.action, tries |-> 0,
                     left |-> IF command.action = "blink" THEN command.count ELSE 0,
                     got |-> FALSE, rel |-> FALSE, resp |-> NoError]]
    ELSE cmd' = [cmd EXCEPT ![c] =
                    [IdleCmd EXCEPT !.pc = "respond", !.action = command.action,
                                    !.resp = ErrorResponse("Unknown action", command.action)]]

handle_command(c, command) ==
    /\ running' = c
    /\ IF validate_command(command) # NoError
       THEN cmd' = [cmd EXCEPT ![c] =
                       [IdleCmd EXCEPT !.pc = "respond", !.action = command.action,
                                       !.resp = validate_command(command)]]
       ELSE Route(c, command)

\* ------------------------------------------------ server: lazy handles
\* _get_servos(): creates the ServoController on first use; the constructor
\* may raise (GPIO busy), which leaves servo_controller None.
\* _get_arduino_display(): never raises; a failed connection leaves a
\* disabled instance behind.
DisplayAfterGet ==
    IF arduino_display = "None" THEN {"connected", "disabled"} ELSE {arduino_display}

\* ------------------------------------- server: lock-acquiring handlers
\* coordinator.acquire(timeout, is_remote=True): open() of one loop pass.
AcquireOpen(c) ==
    /\ running = c
    /\ cmd[c].pc = "open"
    /\ OpenLockFile("remote")
    /\ cmd' = [cmd EXCEPT ![c].pc = "flock"]
    /\ UNCHANGED <<localVars, running, devVars, connVars, rateVars, mainVars, servoVars>>

AcquireFlockOk(c) ==
    /\ running = c
    /\ cmd[c].pc = "flock"
    /\ FlockSucceeds("remote")
    /\ cmd' = [cmd EXCEPT ![c].pc = "body", ![c].got = TRUE, ![c].tries = 0]
    /\ UNCHANGED <<localVars, running, devVars, connVars, rateVars, mainVars, servoVars>>

\* IOError, elapsed < timeout: time.sleep(0.1) blocks the event loop thread.
AcquireFlockRetry(c) ==
    /\ running = c
    /\ cmd[c].pc = "flock"
    /\ flock # "none"
    /\ cmd[c].tries < Timeout(cmd[c].action)
    /\ cmd' = [cmd EXCEPT ![c].pc = "open", ![c].tries = @ + 1]
    /\ UNCHANGED <<lockVars, localVars, running, devVars, connVars, rateVars, mainVars,
                   servoVars>>

\* acquire returned False: the handler returns 'Hardware busy'.
AcquireFlockTimeout(c) ==
    /\ running = c
    /\ cmd[c].pc = "flock"
    /\ cmd[c].tries >= Timeout(cmd[c].action)
    /\ AcquireTimesOut("remote")
    /\ cmd' = [cmd EXCEPT ![c].pc = "respond", ![c].tries = 0,
                          ![c].resp = ErrorResponse("Hardware busy - could not acquire lock", "")]
    /\ UNCHANGED <<localVars, running, devVars, connVars, rateVars, mainVars, servoVars>>

\* The try block of _handle_set_expression, _handle_speak, _handle_test_sync:
\* runs without suspension to its return or to an exception.
HandlerBody(c) ==
    /\ running = c
    /\ cmd[c].pc = "body"
    /\ cmd[c].action \in {"set_expression", "speak", "test_sync"}
    /\ \E outcome \in {"servo_busy", "action_raises", "ok"} :
          /\ outcome = "servo_busy" => servo_controller = "None"
          /\ servo_controller' = IF outcome = "servo_busy" THEN "None" ELSE "open"
          /\ arduino_display' \in
                IF outcome = "ok" /\ cmd[c].action # "test_sync"
                THEN DisplayAfterGet ELSE {arduino_display}
          /\ cmd' = [cmd EXCEPT ![c].pc = "finally",
                                ![c].resp = IF outcome = "ok" THEN OkResponse
                                            ELSE ErrorResponse("Failed", cmd[c].action)]
    /\ UNCHANGED <<lockVars, localVars, running, camera_manager, connVars, rateVars,
                   mainVars, servoVars>>

\* _handle_blink: _get_servos(), then one pass of "for i in range(count)":
\* servos.blink(), and await asyncio.sleep(0.3) when another pass follows.
BlinkBody(c) ==
    /\ running = c
    /\ cmd[c].pc = "body"
    /\ cmd[c].action = "blink"
    /\ \E outcome \in {"servo_busy", "action_raises", "ok"} :
          /\ outcome = "servo_busy" => servo_controller = "None"
          /\ servo_controller' = IF outcome = "servo_busy" THEN "None" ELSE "open"
          /\ IF outcome # "ok"
             THEN /\ cmd' = [cmd EXCEPT ![c].pc = "finally",
                                        ![c].resp = ErrorResponse("Failed", "blink")]
                  /\ UNCHANGED running
             ELSE IF cmd[c].left > 1
             THEN /\ cmd' = [cmd EXCEPT ![c].pc = "blink_sleep", ![c].left = @ - 1]
                  /\ running' = 0
             ELSE /\ cmd' = [cmd EXCEPT ![c].pc = "finally", ![c].left = 0,
                                        ![c].resp = OkResponse]
                  /\ UNCHANGED running
    /\ UNCHANGED <<lockVars, localVars, arduino_display, camera_manager, connVars, rateVars,
                   mainVars, servoVars>>

\* asyncio.sleep(0.3) is over and the event loop resumes the coroutine.
BlinkWake(c) ==
    /\ running = 0
    /\ cmd[c].pc = "blink_sleep"
    /\ running' = c
    /\ cmd' = [cmd EXCEPT ![c].pc = "body"]
    /\ UNCHANGED <<lockVars, localVars, devVars, connVars, rateVars, mainVars,
                   servoVars>>

\* release() placed at the end of the try block: skipped when the body raised.
HandlerReleaseOnSuccess(c) ==
    /\ running = c
    /\ cmd[c].pc = "finally"
    /\ IF cmd[c].resp.status = "success"
       THEN release("remote") /\ cmd' = [cmd EXCEPT ![c].pc = "respond", ![c].rel = TRUE]
       ELSE UNCHANGED lockVars /\ cmd' = [cmd EXCEPT ![c].pc = "respond"]
    /\ arduino_display' = IF cmd[c].action = "speak" /\ arduino_display = "connected"
                          THEN "None" ELSE arduino_display
    /\ UNCHANGED <<localVars, running, servo_controller, camera_manager, connVars, rateVars,
                   mainVars, servoVars>>

\* The exception of a failed action re-raised after the finally block: it
\* leaves handle_command and ends handle_client through "except Exception".
HandlerFinallyPropagates(c) ==
    /\ running = c
    /\ cmd[c].pc = "finally"
    /\ release("remote")
    /\ arduino_display' = IF cmd[c].action = "speak" /\ arduino_display = "connected"
                          THEN "None" ELSE arduino_display
    /\ IF cmd[c].resp.status = "error"
       THEN /\ cmd' = [cmd EXCEPT ![c] = IdleCmd]
            /\ running' = 0
            /\ active_connections' = active_connections \ {c}
            /\ conn' = [conn EXCEPT ![c] = "closed"]
            /\ request_history' = [request_history EXCEPT ![c] = <<>>]
            /\ violations' = [violations EXCEPT ![c] = 0]
            /\ message' = [message EXCEPT ![c] = NoMessage]
            /\ UNCHANGED <<api_token, first_msg, auth_reply, now>>
       ELSE /\ cmd' = [cmd EXCEPT ![c].pc = "respond", ![c].rel = TRUE]
            /\ UNCHANGED <<running, connVars, rateVars>>
    /\ UNCHANGED <<localVars, servo_controller, camera_manager, mainVars, servoVars>>

\* finally: (speak only: close a connected display, drop the handle),
\* coordinator.release().
HandlerFinally(c) ==
    /\ running = c
    /\ cmd[c].pc = "finally"
    /\ release("remote")
    /\ arduino_display' = IF cmd[c].action = "speak" /\ arduino_display = "connected"
                          THEN "None" ELSE arduino_display
    /\ cmd' = [cmd EXCEPT ![c].pc = "respond", ![c].rel = TRUE]
    /\ UNCHANGED <<localVars, running, servo_controller, camera_manager, connVars, rateVars,
                   mainVars, servoVars>>

\* ------------------------------------------- server: lock-free handlers
\* get_status reads paths and the camera info; capture_snapshot,
\* analyze_scene and detect_faces create the CameraManager (which opens the
\* camera) and read a frame; record_audio records from the microphone.
\* get_status taken to fetch the camera through _get_camera(), as the
\* camera commands do.
PlainBodyOpensCamera(c) ==
    /\ running = c
    /\ cmd[c].pc = "body"
    /\ cmd[c].action \notin LOCK_ACTIONS
    /\ \E outcome \in {"raises", "ok"} :
          /\ camera_manager' = IF outcome = "ok" THEN "open" ELSE camera_manager
          /\ cmd' = [cmd EXCEPT ![c].pc = "respond",
                                ![c].resp = IF outcome = "ok" THEN OkResponse
                                            ELSE ErrorResponse("Failed", cmd[c].action)]
    /\ UNCHANGED <<lockVars, localVars, running, servo_controller, arduino_display,
                   connVars, rateVars, mainVars, servoVars>>

PlainBody(c) ==
    /\ running = c
    /\ cmd[c].pc = "body"
    /\ cmd[c].action \notin LOCK_ACTIONS
    /\ \E outcome \in {"raises", "ok"} :
          /\ outcome = "raises" => cmd[c].action # "get_status"
          /\ camera_manager' =
                IF cmd[c].action \in {"capture_snapshot", "analyze_scene", "detect_faces"}
                   /\ outcome = "ok"
                THEN "open" ELSE camera_manager
          /\ cmd' = [cmd EXCEPT ![c].pc = "respond",
                                ![c].resp = IF outcome = "ok" THEN OkResponse
                                            ELSE ErrorResponse("Failed", cmd[c].action)]
    /\ UNCHANGED <<lockVars, localVars, running, servo_controller, arduino_display,
                   connVars, rateVars, mainVars, servoVars>>

\* handle_command has returned; handle_client awaits websocket.send(response).
Respond(c) ==
    /\ running = c
    /\ cmd[c].pc = "respond"
    /\ cmd' = [cmd EXCEPT ![c] = IdleCmd]
    /\ running' = 0
    /\ message' = [message EXCEPT ![c] = NoMessage]
    /\ UNCHANGED <<lockVars, localVars, devVars, api_token, conn, active_connections,
                   first_msg, auth_reply, rateVars, mainVars, servoVars>>

\* ------------------------------------------------------- RateLimiter
\* Pruning against the backoff cap (300 s) instead of the window.
RECURSIVE PruneByBackoffCap(_, _)
PruneByBackoffCap(history, t) ==
    IF history # <<>> /\ Head(history) < t - 300
    THEN PruneByBackoffCap(Tail(history), t)
    ELSE history

\* while history and history[0] < now - window_seconds: history.popleft()
RECURSIVE Prune(_, _)
Prune(history, t) ==
    IF history # <<>> /\ Head(history) < t - window_seconds
    THEN Prune(Tail(history), t)
    ELSE history

Min(a, b) == IF a < b THEN a ELSE b

RECURSIVE Pow2(_)
Pow2(n) == IF n <= 0 THEN 1 ELSE 2 * Pow2(n - 1)

\* The exponent taken as violation_count instead of violation_count - 1.
backoff_seconds_shifted(violation_count) == Min(300, 10 * Pow2(violation_count))

backoff_seconds(violation_count) == Min(300, 10 * Pow2(violation_count - 1))

\* The limit test written with > instead of >=.
AllowedAtLimit(c) == Len(Prune(request_history[c], now)) <= requests_per_minute

\* check_rate_limit: the boolean it returns, and the state it leaves.
Allowed(c) == Len(Prune(request_history[c], now)) < requests_per_minute

\* The counter cleared by an allowed request.
check_rate_limit_resets(c) ==
    /\ request_history' =
          [request_history EXCEPT ![c] =
              IF Allowed(c) THEN Append(Prune(@, now), now) ELSE Prune(@, now)]
    /\ violations' = [violations EXCEPT ![c] = IF Allowed(c) THEN 0 ELSE @ + 1]

check_rate_limit(c) ==
    /\ request_history' =
          [request_history EXCEPT ![c] =
              IF Allowed(c) THEN Append(Prune(@, now), now) ELSE Prune(@, now)]
    /\ violations' = [violations EXCEPT ![c] = IF Allowed(c) THEN @ ELSE @ + 1]

cleanup_connection(c) ==
    /\ request_history' = [request_history EXCEPT ![c] = <<>>]
    /\ violations' = [violations EXCEPT ![c] = 0]

\* ---------------------------------------------------- handle_client
\* The finally block without the call of cleanup_connection.
ConnectionCleanupKeeps(c) ==
    /\ active_connections' = active_connections \ {c}
    /\ UNCHANGED <<request_history, violations>>
    /\ conn' = [conn EXCEPT ![c] = "closed"]

\* finally: active_connections.discard(websocket); cleanup_connection.
ConnectionCleanup(c) ==
    /\ active_connections' = active_connections \ {c}
    /\ cleanup_connection(c)
    /\ conn' = [conn EXCEPT ![c] = "closed"]

\* The ceiling test written with > instead of >=.
AtCeilingStrict == Cardinality(active_connections) > max_connections

\* len(self.active_connections) >= self.max_connections
AtCeiling == Cardinality(active_connections) >= max_connections

\* The listening socket opened by websockets.serve in start() is open: the
\* task is running, or its cancellation has been requested and not yet
\* delivered.
Listening == server_task \in {"serving", "cancelling"}

\* A new connection: rejected at the ceiling (the error is sent and the
\* socket closed by RejectSend), otherwise admitted.
Accept(c) ==
    /\ running = 0
    /\ Listening
    /\ conn[c] = "closed"
    /\ cmd[c].pc = "idle"
    /\ first_msg' = [first_msg EXCEPT ![c] = NoMessage]
    /\ auth_reply' = [auth_reply EXCEPT ![c] = "none"]
    /\ message' = [message EXCEPT ![c] = NoMessage]
    /\ IF AtCeiling
       THEN /\ conn' = [conn EXCEPT ![c] = "reject"]
            /\ UNCHANGED active_connections
       ELSE /\ active_connections' = active_connections \cup {c}
            /\ conn' = [conn EXCEPT ![c] = IF api_token # "None" THEN "auth" ELSE "open"]
    /\ UNCHANGED <<lockVars, localVars, running, cmd, devVars, api_token, rateVars,
                   mainVars, servoVars>>

\* await websocket.send(limit error); await websocket.close(); return.
RejectSend(c) ==
    /\ running = 0
    /\ conn[c] = "reject"
    /\ conn' = [conn EXCEPT ![c] = "closed"]
    /\ UNCHANGED <<lockVars, localVars, running, cmd, devVars, api_token,
                   active_connections, first_msg, auth_reply, message, rateVars,
                   mainVars, servoVars>>

\* provided_token == self.api_token, with a missing token accepted.
TokenMatchesOrMissing(m) == m.token \in {api_token, "absent"}

\* provided_token == self.api_token
TokenMatches(m) == m.token = api_token

\* The first message arrives within the 5 s wait: json.loads, then
\* auth_data.get('token') == api_token.  A decoded value that is not an
\* object has no get(): the AttributeError is caught by the outer
\* "except Exception", and the finally block runs.
AuthRecv(c, m) ==
    /\ running = 0
    /\ conn[c] = "auth"
    /\ first_msg' = [first_msg EXCEPT ![c] = m]
    /\ IF m.json = "notjson"
       THEN /\ conn' = [conn EXCEPT ![c] = "auth_error"]
            /\ UNCHANGED <<active_connections, rateVars>>
       ELSE IF m.json # "object"
       THEN /\ ConnectionCleanup(c)
            /\ UNCHANGED now
       ELSE IF TokenMatches(m)
       THEN /\ conn' = [conn EXCEPT ![c] = "auth_ok"]
            /\ UNCHANGED <<active_connections, rateVars>>
       ELSE /\ conn' = [conn EXCEPT ![c] = "auth_error"]
            /\ UNCHANGED <<active_connections, rateVars>>
    /\ UNCHANGED <<lockVars, localVars, running, cmd, devVars, api_token, auth_reply,
                   message, mainVars, servoVars>>

\* asyncio.TimeoutError after 5 s without a message.
AuthTimeout(c) ==
    /\ running = 0
    /\ conn[c] = "auth"
    /\ first_msg' = [first_msg EXCEPT ![c] = Message("timeout")]
    /\ conn' = [conn EXCEPT ![c] = "auth_error"]
    /\ UNCHANGED <<lockVars, localVars, running, cmd, devVars, api_token,
                   active_connections, auth_reply, message, rateVars, mainVars,
                   servoVars>>

\* await websocket.send({'status': 'authenticated'}); enter the message loop.
AuthSuccessSend(c) ==
    /\ running = 0
    /\ conn[c] = "auth_ok"
    /\ auth_reply' = [auth_reply EXCEPT ![c] = "authenticated"]
    /\ conn' = [conn EXCEPT ![c] = "open"]
    /\ UNCHANGED <<lockVars, localVars, running, cmd, devVars, api_token,
                   active_connections, first_msg, message, rateVars, mainVars,
                   servoVars>>

\* await websocket.send({'status': 'error'}); await websocket.close();
\* return; finally.
AuthErrorSend(c) ==
    /\ running = 0
    /\ conn[c] = "auth_error"
    /\ auth_reply' = [auth_reply EXCEPT ![c] = "error"]
    /\ ConnectionCleanup(c)
    /\ UNCHANGED <<lockVars, localVars, running, cmd, devVars, api_token, first_msg,
                   message, now, mainVars, servoVars>>

\* The client closes the connection while the server waits for a message.
Disconnect(c) ==
    /\ running = 0
    /\ conn[c] \in {"auth", "open"}
    /\ cmd[c].pc = "idle"
    /\ ConnectionCleanup(c)
    /\ UNCHANGED <<lockVars, localVars, running, cmd, devVars, api_token,
                   first_msg, auth_reply, message, now, mainVars, servoVars>>

\* One pass of "async for message in websocket" up to the first await:
\* rate limit, json.loads, handle_command.  _validate_command calls
\* command.get before the try block of handle_command, so a decoded value
\* that is not an object ends the connection through "except Exception".
Receive(c, m) ==
    /\ running = 0
    /\ conn[c] = "open"
    /\ cmd[c].pc = "idle"
    /\ message' = [message EXCEPT ![c] = m]
    /\ IF Allowed(c) /\ m.json \notin {"notjson", "object"}
       THEN cleanup_connection(c)
       ELSE check_rate_limit(c)
    /\ IF ~Allowed(c)
       THEN /\ cmd' = [cmd EXCEPT ![c] =
                          [IdleCmd EXCEPT !.pc = "respond",
                              !.resp = ErrorResponse("Rate limit exceeded",
                                           backoff_seconds(violations[c] + 1))]]
            /\ running' = c
            /\ UNCHANGED <<conn, active_connections>>
       ELSE IF m.json = "notjson"
       THEN /\ cmd' = [cmd EXCEPT ![c] =
                          [IdleCmd EXCEPT !.pc = "respond",
                                          !.resp = ErrorResponse("Invalid JSON", "")]]
            /\ running' = c
            /\ UNCHANGED <<conn, active_connections>>
       ELSE IF m.json # "object"
       THEN /\ active_connections' = active_connections \ {c}
            /\ conn' = [conn EXCEPT ![c] = "closed"]
            /\ UNCHANGED <<cmd, running>>
       ELSE /\ handle_command(c, m)
            /\ UNCHANGED <<conn, active_connections>>
    /\ UNCHANGED <<lockVars, localVars, devVars, api_token, first_msg, auth_reply, now,
                   mainVars, servoVars>>

\* ------------------------------------------------- main and shutdown
\* running = MAIN_TASK: the coroutine of main() occupies the event loop.
MAIN_TASK == 0 - 1

\* seconds: asyncio.wait_for(asyncio.gather(*close_tasks), timeout=5.0)
CLOSE_TIMEOUT == 5

handleVars == <<voice_handler, expression_engine>>
cleanupVars == <<cleanup_attempted, cleanup_raised>>
loopVars == <<to_notify, close_tasks, waited, close_started>>

\* start(): is_running = True; websockets.serve opens the listening socket
\* and the task waits on a future that is never set.
StartServes ==
    /\ running = 0
    /\ server_task = "created"
    /\ is_running' = TRUE
    /\ server_task' = "serving"
    /\ UNCHANGED <<lockVars, localVars, running, cmd, devVars, connVars, rateVars,
                   handleVars, shutdown_event, main_pc, loopVars, stalled, cleanupVars,
                   servoVars>>

\* start(): websockets.serve raises (the address is in use): the exception
\* ends the task and is stored in it; nothing awaits the task.
StartFails ==
    /\ running = 0
    /\ server_task = "created"
    /\ is_running' = TRUE
    /\ server_task' = "failed"
    /\ UNCHANGED <<lockVars, localVars, running, cmd, devVars, connVars, rateVars,
                   handleVars, shutdown_event, main_pc, loopVars, stalled, cleanupVars,
                   servoVars>>

\* signal_handler (SIGINT, SIGTERM): shutdown_event.set().
Signal ==
    /\ ~shutdown_event
    /\ shutdown_event' = TRUE
    /\ UNCHANGED <<lockVars, localVars, running, cmd, devVars, connVars, rateVars,
                   handleVars, is_running, server_task, main_pc, loopVars, stalled,
                   cleanupVars, servoVars>>

\* list(self.active_connections): the connections in any order.
Orderings(S) ==
    {order \in [1..Cardinality(S) -> S] :
        \A i, j \in 1..Cardinality(S) : order[i] = order[j] => i = j}

\* server_task.cancel(): a task waiting in start() is cancelled when the
\* event loop next runs it, a task not yet started never runs, a task that
\* has ended is left as it is.
Cancelled(task) ==
    IF task = "serving" THEN "cancelling"
    ELSE IF task = "created" THEN "cancelled"
    ELSE task

\* main() resumes from shutdown_event.wait(): server_task.cancel(), then
\* shutdown_gracefully up to its first await: is_running = False and the
\* snapshot of the active connections; without connections cleanup()
\* follows at once.
MainResume ==
    /\ running = 0
    /\ main_pc = "wait"
    /\ shutdown_event
    /\ server_task' = Cancelled(server_task)
    /\ is_running' = FALSE
    /\ to_notify' \in Orderings(active_connections)
    /\ waited' = 0
    /\ close_started' = 0
    /\ IF active_connections = {}
       THEN main_pc' = "cleanup" /\ running' = MAIN_TASK
       ELSE main_pc' = "notify" /\ UNCHANGED running
    /\ UNCHANGED <<lockVars, localVars, cmd, devVars, connVars, rateVars,
                   handleVars, shutdown_event, close_tasks, stalled, cleanupVars,
                   servoVars>>

\* The cancellation reaches start(): leaving "async with websockets.serve"
\* closes the listening socket.
ListenerCloses ==
    /\ running = 0
    /\ server_task = "cancelling"
    /\ server_task' = "cancelled"
    /\ UNCHANGED <<lockVars, localVars, running, cmd, devVars, connVars, rateVars,
                   handleVars, is_running, shutdown_event, main_pc, loopVars, stalled,
                   cleanupVars, servoVars>>

\* The websocket the for loop of shutdown_gracefully has reached.
NotifyBlocked ==
    /\ main_pc = "notify"
    /\ conn[Head(to_notify)] # "closed"
    /\ stalled[Head(to_notify)]

\* One pass of the for loop: await websocket.send(shutdown notice), which
\* returns once the notice is written (it does not return while the client
\* is not reading), then close_tasks.append(websocket.close()); a
\* connection closed in the meantime raises ConnectionClosed, which is
\* logged.  After the last pass: the wait for the closes when there are
\* any, cleanup() otherwise.
Notify ==
    /\ running = 0
    /\ main_pc = "notify"
    /\ ~NotifyBlocked
    /\ to_notify' = Tail(to_notify)
    /\ close_tasks' = IF conn[Head(to_notify)] # "closed"
                      THEN close_tasks \cup {Head(to_notify)} ELSE close_tasks
    /\ IF to_notify' # <<>>
       THEN UNCHANGED <<main_pc, running, close_started>>
       ELSE IF close_tasks' # {}
       THEN main_pc' = "closing" /\ close_started' = waited /\ UNCHANGED running
       ELSE main_pc' = "cleanup" /\ running' = MAIN_TASK /\ UNCHANGED close_started
    /\ UNCHANGED <<lockVars, localVars, cmd, devVars, connVars, rateVars,
                   handleVars, is_running, server_task, shutdown_event, waited,
                   stalled, cleanupVars, servoVars>>

\* wait_for(..., timeout=5.0): the time left before TimeoutError.
CloseWaitOver == waited - close_started >= CLOSE_TIMEOUT

\* A second passes while shutdown_gracefully is suspended: in the send of a
\* notice to a client that does not read, or in the wait for the closes.
ShutdownTick ==
    /\ \/ NotifyBlocked
       \/ main_pc = "closing" /\ close_tasks # {} /\ ~CloseWaitOver
    /\ waited < MaxWait
    /\ waited' = waited + 1
    /\ UNCHANGED <<lockVars, localVars, running, cmd, devVars, connVars, rateVars,
                   handleVars, is_running, server_task, shutdown_event, main_pc,
                   to_notify, close_tasks, close_started, stalled, cleanupVars,
                   servoVars>>

\* websocket.close() returns: the client has answered the close frame.  A
\* handler waiting for the next message leaves its loop and runs its
\* finally block; a handler inside a command finds the connection closed
\* when it sends its response.
CloseCompletes(c) ==
    /\ running = 0
    /\ main_pc = "closing"
    /\ c \in close_tasks
    /\ ~stalled[c]
    /\ close_tasks' = close_tasks \ {c}
    /\ IF cmd[c].pc = "idle" /\ conn[c] # "closed"
       THEN ConnectionCleanup(c)
       ELSE /\ conn' = [conn EXCEPT ![c] = IF @ = "closed" THEN @ ELSE "closing"]
            /\ UNCHANGED <<active_connections, request_history, violations>>
    /\ UNCHANGED <<lockVars, localVars, running, cmd, devVars, api_token, first_msg,
                   auth_reply, message, now, handleVars, is_running, server_task,
                   shutdown_event, main_pc, to_notify, waited, close_started, stalled,
                   cleanupVars, servoVars>>

\* gather returned: every close has completed.
ClosesDone ==
    /\ running = 0
    /\ main_pc = "closing"
    /\ close_tasks = {}
    /\ main_pc' = "cleanup"
    /\ running' = MAIN_TASK
    /\ UNCHANGED <<lockVars, localVars, cmd, devVars, connVars, rateVars,
                   handleVars, is_running, server_task, shutdown_event, loopVars,
                   stalled, cleanupVars, servoVars>>

\* asyncio.TimeoutError: the closes still pending are cancelled.
CloseTimeout ==
    /\ running = 0
    /\ main_pc = "closing"
    /\ close_tasks # {}
    /\ CloseWaitOver
    /\ close_tasks' = {}
    /\ main_pc' = "cleanup"
    /\ running' = MAIN_TASK
    /\ UNCHANGED <<lockVars, localVars, cmd, devVars, connVars, rateVars,
                   handleVars, is_running, server_task, shutdown_event, to_notify,
                   waited, close_started, stalled, cleanupVars, servoVars>>

\* await websocket.send(response) on a connection closed by the shutdown:
\* ConnectionClosed ends handle_client through its finally block.
RespondClosed(c) ==
    /\ running = c
    /\ cmd[c].pc = "respond"
    /\ conn[c] = "closing"
    /\ cmd' = [cmd EXCEPT ![c] = IdleCmd]
    /\ running' = 0
    /\ message' = [message EXCEPT ![c] = NoMessage]
    /\ ConnectionCleanup(c)
    /\ UNCHANGED <<lockVars, localVars, devVars, api_token, first_msg, auth_reply, now,
                   mainVars, servoVars>>

\* The client stops reading from its socket, or reads again.
ClientStalls(c) ==
    /\ conn[c] = "open"
    /\ ~stalled[c]
    /\ stalled' = [stalled EXCEPT ![c] = TRUE]
    /\ UNCHANGED <<lockVars, localVars, running, cmd, devVars, connVars, rateVars,
                   handleVars, is_running, server_task, shutdown_event, main_pc,
                   loopVars, cleanupVars, servoVars>>

ClientReads(c) ==
    /\ stalled[c]
    /\ stalled' = [stalled EXCEPT ![c] = FALSE]
    /\ UNCHANGED <<lockVars, localVars, running, cmd, devVars, connVars, rateVars,
                   handleVars, is_running, server_task, shutdown_event, main_pc,
                   loopVars, cleanupVars, servoVars>>

\* cleanup(): the steps in the order of the code.
CLEANUP_STEPS == <<"camera", "servos", "display", "voice", "expression">>

\* The handle a step tests with "is not None".
Handle(step) ==
    CASE step = "camera" -> camera_manager
      [] step = "servos" -> servo_controller
      [] step = "display" -> arduino_display
      [] step = "voice" -> voice_handler
      [] step = "expression" -> expression_engine

\* The steps whose handle is not None, in the order of the code.
InitializedSteps == SelectSeq(CLEANUP_STEPS, LAMBDA step : Handle(step) # "None")

Initialized == {InitializedSteps[i] : i \in 1..Len(InitializedSteps)}

\* The steps whose try block contains a call that can raise: the display is
\* closed only when connected, and VoiceHandler has no cleanup method.
CanRaise ==
    {step \in Initialized :
        /\ step # "voice"
        /\ step = "display" => arduino_display = "connected"}

\* The handle after its step: released, closed or, for the engine, reset to
\* the idle expression; unchanged when the step raised or made no call.
After(step, raises) ==
    IF step \notin Initialized \/ step \in raises THEN Handle(step)
    ELSE CASE step = "camera" -> "released"
           [] step = "servos" -> "closed"
           [] step = "display" -> IF arduino_display = "connected" THEN "closed"
                                  ELSE arduino_display
           [] step = "voice" -> voice_handler
           [] step = "expression" -> "idle"

\* The steps entered when an exception ends cleanup(): those up to the
\* first that raises.
RECURSIVE UntilRaise(_, _)
UntilRaise(steps, raises) ==
    IF steps = <<>> THEN <<>>
    ELSE IF Head(steps) \in raises THEN <<Head(steps)>>
    ELSE <<Head(steps)>> \o UntilRaise(Tail(steps), raises)

AttemptedUntilRaise(raises) == UntilRaise(InitializedSteps, raises)

\* The steps entered when the steps in raises raise: every step has its own
\* try/except, so all the initialized ones, in order.
Attempted(raises) == InitializedSteps

\* The elements of a sequence.
Range(seq) == {seq[i] : i \in 1..Len(seq)}

\* cleanup() called by shutdown_gracefully, which then returns to main().
cleanup ==
    /\ running = MAIN_TASK
    /\ main_pc = "cleanup"
    /\ \E raises \in SUBSET CanRaise :
          LET entered == Range(Attempted(raises)) IN
          /\ cleanup_attempted' = Attempted(raises)
          /\ cleanup_raised' = raises \cap entered
          /\ camera_manager' =
                IF "camera" \in entered THEN After("camera", raises) ELSE camera_manager
          /\ servo_controller' =
                IF "servos" \in entered THEN After("servos", raises) ELSE servo_controller
          /\ arduino_display' =
                IF "display" \in entered THEN After("display", raises) ELSE arduino_display
          /\ voice_handler' = voice_handler
          /\ expression_engine' =
                IF "expression" \in entered THEN After("expression", raises)
                ELSE expression_engine
          /\ main_pc' = IF entered = Initialized THEN "done" ELSE "raised"
    /\ UNCHANGED <<lockVars, localVars, running, cmd, connVars, rateVars,
                   is_running, server_task, shutdown_event, loopVars, stalled,
                   servoVars>>

\* main() returns and asyncio.run cancels the tasks still pending: a handler
\* suspended inside a command gets CancelledError and runs its finally
\* blocks (coordinator.release(), the connection's cleanup); a listener
\* still open is closed.
InsideLockedCommand(c) == cmd[c].got /\ ~cmd[c].rel

Exit ==
    /\ running = MAIN_TASK
    /\ main_pc = "done"
    /\ main_pc' = "exited"
    /\ running' = 0
    /\ IF \E c \in AllConns : InsideLockedCommand(c)
       THEN release("remote")
       ELSE UNCHANGED lockVars
    /\ cmd' = [c \in AllConns |-> IdleCmd]
    /\ conn' = [c \in AllConns |-> "closed"]
    /\ active_connections' = {}
    /\ message' = [c \in AllConns |-> NoMessage]
    /\ request_history' = [c \in AllConns |-> <<>>]
    /\ violations' = [c \in AllConns |-> 0]
    /\ server_task' = IF Listening THEN "cancelled" ELSE Cancelled(server_task)
    /\ UNCHANGED <<localVars, devVars, api_token, first_msg, auth_reply, now,
                   handleVars, is_running, shutdown_event, loopVars, stalled,
                   cleanupVars, servoVars>>

\* ---------------------------------------------------- the lock arbiter
\* handle_command applied to the commands two clients may issue.
LockCommands ==
    {Command(a) : a \in {"set_expression", "speak", "test_sync", "get_status"}}
    \cup {[Command("blink") EXCEPT !.count = n] : n \in 1..MaxCount}

\* handle_command is called with one of the given commands.
Apply(c, commands) ==
    /\ running = 0
    /\ cmd[c].pc = "idle"
    /\ \E command \in commands : handle_command(c, command)
    /\ UNCHANGED <<lockVars, localVars, devVars, connVars, rateVars, mainVars,
                   servoVars>>

Invoke(c) == Apply(c, LockCommands)

Server(c) ==
    \/ Invoke(c) \/ AcquireOpen(c) \/ AcquireFlockOk(c) \/ AcquireFlockRetry(c)
    \/ AcquireFlockTimeout(c) \/ HandlerBody(c) \/ BlinkBody(c) \/ BlinkWake(c)
    \/ HandlerFinally(c) \/ PlainBody(c) \/ Respond(c)

Next == Local \/ \E c \in Conns : Server(c)

Spec == Init /\ [][Next]_vars

\* ------------------------------------------- connections and handshake
\* Clients connect, send a first message or none, and then a bounded number
\* of messages that need no hardware lock.
AuthMessages ==
    {Message("notjson"), Message("list"), Message("number"), Message("object"),
     [Message("object") EXCEPT !.token = "good"],
     [Message("object") EXCEPT !.token = "bad"],
     Command("get_status")}

ConnMessages ==
    {Message("notjson"), Message("list"), Message("object"),
     Command("get_status"), Command("capture_snapshot"),
     Command("bogus"), Command("empty"), Command("nonstring"),
     [Command("bogus") EXCEPT !.params = "notdict"],
     [Command("get_status") EXCEPT !.params = "notdict"],
     [Command("speak") EXCEPT !.text_len = MAX_TEXT_LEN + 1],
     [Command("capture_snapshot") EXCEPT !.quality_kind = "int", !.quality = 0]}

BoundedReceive(c, messages) ==
    /\ Len(request_history[c]) < MaxSends
    /\ \E m \in messages : Receive(c, m)

Connection(c) ==
    \/ Accept(c)
    \/ \E m \in AuthMessages : AuthRecv(c, m)
    \/ AuthTimeout(c) \/ AuthSuccessSend(c) \/ AuthErrorSend(c)
    \/ Disconnect(c)
    \/ BoundedReceive(c, ConnMessages)
    \/ PlainBody(c) \/ Respond(c)

NextConn == \E c \in Conns : Connection(c)

SpecConn == InitWith("good") /\ [][NextConn]_vars

\* ------------------------------------------------- connection ceiling
\* No token is configured; max_connections + 1 clients connect and
\* disconnect, the first NClients of them also send status requests.
Crowd(c) ==
    \/ Accept(c) \/ RejectSend(c) \/ Disconnect(c)
    \/ (c \in Conns /\ BoundedReceive(c, {Command("get_status")}))
    \/ PlainBody(c) \/ Respond(c)

NextCeil == \E c \in AllConns : Crowd(c)

SpecCeil == InitWith("None") /\ [][NextCeil]_vars

\* ------------------------------------------------------- rate limiting
\* One connection without a configured token sends requests while the
\* clock advances by a full window or by a full window and a second.
Tick ==
    /\ running = 0
    /\ \E d \in {window_seconds, window_seconds + 1} :
          /\ now + d <= MaxTime * (window_seconds + 1)
          /\ now' = now + d
    /\ UNCHANGED <<lockVars, localVars, running, cmd, devVars, connVars,
                   request_history, violations, mainVars, servoVars>>

Limited(c) ==
    \/ Accept(c) \/ Disconnect(c)
    \/ ((Allowed(c) \/ violations[c] < MaxViolations) /\ Receive(c, Command("get_status")))
    \/ PlainBody(c) \/ Respond(c)

NextRate == Tick \/ Limited(1)

SpecRate == InitWith("None") /\ [][NextRate]_vars

\* ------------------------------------------------------ speak commands
\* One client of a server without a configured token sends speak commands
\* whose text is missing, not a string, or short, MAX_TEXT_LEN or
\* MAX_TEXT_LEN + 1 characters long; no local process contends for the lock.
SpeakMessages ==
    {[Command("speak") EXCEPT !.text_len = n] : n \in {1, MAX_TEXT_LEN, MAX_TEXT_LEN + 1}}
    \cup {[Command("speak") EXCEPT !.text_kind = k, !.text_len = 0] :
               k \in {"absent", "nonstring"}}

NextSpeak ==
    \/ Accept(1) \/ Disconnect(1)
    \/ BoundedReceive(1, SpeakMessages)
    \/ AcquireOpen(1) \/ AcquireFlockOk(1) \/ HandlerBody(1) \/ HandlerFinally(1)
    \/ Respond(1)

SpecSpeak == InitWith("None") /\ [][NextSpeak]_vars

\* ------------------------------------------------- the coordinator's API
\* A caller of the coordinator in the local process: acquire(timeout) with
\* any timeout from 0 up, and release() called without a hold (before any
\* acquire, after acquire returned False, after a release), beside one
\* server connection whose commands take the lock.
CallAcquire(timeout) ==
    /\ lpc \in {"idle", "released"}
    /\ lpc' = "open"
    /\ ltries' = 0
    /\ ltimeout' = timeout
    /\ UNCHANGED <<lockVars, local_display, running, cmd, devVars, connVars, rateVars,
                   mainVars, servoVars, interVars>>

CallRelease ==
    /\ lpc \in {"idle", "released"}
    /\ release("local")
    /\ lpc' = "released"
    /\ UNCHANGED <<ltries, ltimeout, local_display, running, cmd, devVars, connVars, rateVars,
                   mainVars, servoVars, interVars>>

NextAcquire ==
    \/ \E timeout \in 0..MaxTimeout : CallAcquire(timeout)
    \/ CallRelease
    \/ LocalOpen \/ LocalFlockOk \/ LocalFlockRetry \/ LocalFlockTimeout
    \/ LocalInteract \/ LocalFinally
    \/ Apply(1, {Command("set_expression"), Command("speak")})
    \/ AcquireOpen(1) \/ AcquireFlockOk(1) \/ AcquireFlockRetry(1)
    \/ AcquireFlockTimeout(1) \/ HandlerBody(1) \/ HandlerFinally(1)
    \/ Respond(1)

\* acquire() is a loop without suspension points: once called, the thread
\* keeps taking the steps of its loop.
LocalAcquireSteps == LocalOpen \/ LocalFlockOk \/ LocalFlockRetry \/ LocalFlockTimeout
AcquireSteps(c) ==
    AcquireOpen(c) \/ AcquireFlockOk(c) \/ AcquireFlockRetry(c) \/ AcquireFlockTimeout(c)

SpecAcquire ==
    /\ InitWith("None")
    /\ [][NextAcquire]_vars
    /\ WF_vars(LocalAcquireSteps)
    /\ WF_vars(AcquireSteps(1))

\* ------------------------------------------------- devices and the lock
\* The local loop in touchscreen mode (the display is reconnected between
\* interactions) beside one server connection whose client issues a
\* servo command and camera commands.
DeviceCommands ==
    {Command(a) : a \in {"set_expression", "capture_snapshot", "detect_faces"}}

NextDevices ==
    \/ Local \/ LocalReconnect \/ LocalNotice
    \/ Apply(1, DeviceCommands)
    \/ AcquireOpen(1) \/ AcquireFlockOk(1) \/ AcquireFlockRetry(1)
    \/ AcquireFlockTimeout(1) \/ HandlerBody(1) \/ HandlerFinally(1)
    \/ PlainBody(1) \/ Respond(1)

SpecDevices == InitWith("None") /\ [][NextDevices]_vars

\* The steps the server takes for a command it has received: the handler
\* runs to its response without waiting for the client.
ServerSteps(c) ==
    \/ AcquireSteps(c) \/ HandlerBody(c) \/ HandlerFinally(c)
    \/ PlainBody(c) \/ Respond(c)

\* The same processes, each running on once it has work: a command that
\* was received is served to its response, an acquire() that was called
\* returns. Whether a further command arrives is up to the client.
SpecHandOff ==
    /\ InitWith("None")
    /\ [][NextDevices]_vars
    /\ WF_vars(ServerSteps(1))
    /\ WF_vars(LocalAcquireSteps)

\* ------------------------------------------- waiting beside other clients
\* Two clients of a server with a configured token: each connects,
\* authenticates and sends set_expression or get_status, while the local
\* loop takes and releases the lock.
WaitMessages == {Command("set_expression"), Command("get_status")}

Waiting(c) ==
    \/ Accept(c)
    \/ AuthRecv(c, [Message("object") EXCEPT !.token = "good"])
    \/ AuthSuccessSend(c)
    \/ Disconnect(c)
    \/ BoundedReceive(c, WaitMessages)
    \/ AcquireOpen(c) \/ AcquireFlockOk(c) \/ AcquireFlockRetry(c)
    \/ AcquireFlockTimeout(c) \/ HandlerBody(c) \/ HandlerFinally(c)
    \/ PlainBody(c) \/ Respond(c)

NextWait == Local \/ \E c \in Conns : Waiting(c)

SpecWait == InitWith("good") /\ [][NextWait]_vars

\* ------------------------------------------------------- status queries
\* One client of a server with a configured token connects, authenticates
\* and sends get_status or set_expression, while the local loop takes and
\* releases the lock.
NextStatus == Local \/ Waiting(1)

SpecStatus == InitWith("good") /\ [][NextStatus]_vars

\* ------------------------------------------------------ failing actions
\* One client of a server without a configured token sends commands whose
\* actions may raise (servo busy, a failing servo or camera call, a failed
\* recording), while the local loop takes and releases the lock.
ActionMessages ==
    {Command(a) : a \in {"set_expression", "test_sync", "capture_snapshot", "record_audio"}}

NextActions ==
    \/ Local
    \/ Accept(1) \/ Disconnect(1)
    \/ BoundedReceive(1, ActionMessages)
    \/ AcquireOpen(1) \/ AcquireFlockOk(1) \/ AcquireFlockRetry(1)
    \/ AcquireFlockTimeout(1) \/ HandlerBody(1) \/ HandlerFinally(1)
    \/ PlainBody(1) \/ Respond(1)

SpecActions == InitWith("None") /\ [][NextActions]_vars

\* ------------------------------------------------------------ cleanup
\* A server that has served commands, so that any of its handles may have
\* been created, has no connection left when the signal arrives.
Handles ==
    [camera_manager : {"None", "open"}, servo_controller : {"None", "open"},
     arduino_display : {"None", "connected", "disabled"},
     voice_handler : {"None", "ready"}, expression_engine : {"None", "ready"}]

InitCleanup == \E handles \in Handles : InitMain("None", "serving", handles)

NextCleanup == Signal \/ MainResume \/ cleanup \/ Exit

SpecCleanup == InitCleanup /\ [][NextCleanup]_vars

\* ----------------------------------------------------------- shutdown
\* main() has created the task that runs start(), which opens the listener
\* or fails.  Two clients of a server without a configured token connect
\* and send blink (MaxCount blinks) or get_status; a client may stop reading
\* while no request of its own is outstanding, and then sends nothing more;
\* no request is taken from a connection whose close has been started.
\* A termination signal arrives at any moment.  While the for loop of
\* shutdown_gracefully or its close_tasks refer to a websocket, no new
\* connection takes its place.
ShutdownMessages == {[Command("blink") EXCEPT !.count = MaxCount], Command("get_status")}

Client(c) ==
    \/ (c \notin Range(to_notify) /\ c \notin close_tasks /\ Accept(c))
    \/ Disconnect(c)
    \/ (~stalled[c] /\ c \notin close_tasks /\ BoundedReceive(c, ShutdownMessages))
    \/ AcquireOpen(c) \/ AcquireFlockOk(c) \/ BlinkBody(c) \/ BlinkWake(c)
    \/ HandlerFinally(c) \/ PlainBody(c)
    \/ (conn[c] = "open" /\ Respond(c))
    \/ RespondClosed(c)
    \/ CloseCompletes(c)
    \/ (running = 0 /\ cmd[c].pc = "idle" /\ ClientStalls(c))
    \/ ClientReads(c)

\* The steps of main() and of shutdown_gracefully.
MainStep ==
    \/ MainResume \/ Notify \/ ClosesDone \/ CloseTimeout \/ cleanup \/ Exit

NextShutdown ==
    \/ StartServes \/ StartFails \/ Signal \/ ListenerCloses \/ ShutdownTick
    \/ MainStep
    \/ \E c \in Conns : Client(c)

SpecShutdown == InitMain("None", "created", NoHandles) /\ [][NextShutdown]_vars

\* ------------------------------------------- the ends of a connection
\* One client of a server with a configured token connects, with the right
\* token or a wrong one, and sends get_status requests, faster than the
\* rate limit allows, or a JSON list, on which the handler fails; it
\* disconnects at any moment, and a termination signal may arrive and the
\* server close the connection, between two requests.
Ending(c) ==
    \/ (c \notin Range(to_notify) /\ c \notin close_tasks /\ Accept(c))
    \/ \E token \in {"good", "bad"} : AuthRecv(c, [Message("object") EXCEPT !.token = token])
    \/ AuthSuccessSend(c) \/ AuthErrorSend(c)
    \/ Disconnect(c)
    \/ /\ c \notin close_tasks
       /\ Allowed(c) \/ violations[c] < MaxViolations
       /\ \E m \in {Command("get_status"), Message("list")} : Receive(c, m)
    \/ PlainBody(c) \/ Respond(c)
    \/ CloseCompletes(c)

\* The shutdown takes less than a window, and the client answers the close
\* frame within the 5 s of the wait.
NextEnding ==
    \/ (main_pc = "wait" /\ ~shutdown_event /\ Tick)
    \/ Signal \/ ListenerCloses
    \/ MainResume \/ Notify \/ ClosesDone \/ cleanup \/ Exit
    \/ Ending(1)

SpecEnding == InitMain("good", "serving", NoHandles) /\ [][NextEnding]_vars

\* ------------------------------------------------ local interactions
\* The local loop in touchscreen mode, each interaction taken step by step,
\* beside one server connection whose client sends set_expression.
NextInteraction ==
    \/ Interaction
    \/ Apply(1, {Command("set_expression")})
    \/ AcquireOpen(1) \/ AcquireFlockOk(1) \/ AcquireFlockRetry(1)
    \/ AcquireFlockTimeout(1) \/ HandlerBody(1) \/ HandlerFinally(1)
    \/ Respond(1)

SpecInteraction == InitWith("None") /\ [][NextInteraction]_vars

\* ------------------------------------------------------ the servo bank
\* One thread calls the movement methods and starts and stops the speech
\* animation of a ServoController while time passes and its timers run.
NextServo ==
    \/ \E s \in Servos, angle \in Angles : BeginMove(s, angle)
    \/ EndMove
    \/ \E t \in 1..MaxTimers : TimerFires(t)
    \/ ServoTick
    \/ StartSpeech \/ AnimFrame \/ AnimExit \/ StopSpeech

SpecServo == InitWith("None") /\ [][NextServo]_vars

\* The same controller with its threads running on: the animation thread
\* takes its next step whenever it can, and a movement under way reaches
\* its target.
SpecAnimation ==
    /\ InitWith("None")
    /\ [][NextServo]_vars
    /\ WF_vars(AnimFrame \/ AnimExit)
    /\ WF_vars(EndMove)

\* ------------------------------------------------ closing the servos
\* The controller as the local process uses it: movements and speech
\* animation, then close(), after which the caller has no controller to
\* call; the timers made before run on.
NextClose ==
    \/ /\ ~IsClosed
       /\ \/ \E s \in Servos, angle \in Angles : BeginMove(s, angle)
          \/ EndMove
          \/ StartSpeech \/ AnimFrame \/ AnimExit \/ StopSpeech
    \/ close
    \/ \E t \in 1..MaxTimers : TimerFires(t)
    \/ ServoTick

SpecClose == InitWith("None") /\ [][NextClose]_vars

\* ------------------------------------------- audio-reactive playback
\* The same controller while VoiceHandler.speak plays Piper audio: the
\* audio thread's callback runs beside the threads that call the movement
\* methods (the quirk timers of the ExpressionEngine: wink, sigh).
NextStream ==
    \/ NextServo
    \/ StartStream
    \/ \E mouth_pos \in Angles, eyes \in {"keep", "blink", "reopen"} :
          AudioCallback(mouth_pos, eyes)
    \/ EndStream

SpecStream == InitWith("None") /\ [][NextStream]_vars

\* ------------------------------------------------------------ properties
\* A caller holds the lock from the moment acquire returns True until its
\* matching release() returns.
LocalHolds == lpc \in {"hold", "finally"}
CommandHolds(c) == cmd[c].got /\ ~cmd[c].rel
RemoteHolds == \E c \in AllConns : CommandHolds(c)

\* C1: the local process and the server process never hold the hardware
\* lock at the same time.
C1_CrossProcessMutex == ~(LocalHolds /\ RemoteHolds)

\* C2: two lock-acquiring commands issued on different connections are
\* never both between their successful acquire and their own release.
C2_CommandsSerialize ==
    \A c1 \in AllConns, c2 \in AllConns :
        c1 # c2 => ~(CommandHolds(c1) /\ CommandHolds(c2))

\* C3: when the handler of a lock-acquiring command returns after acquire
\* returned True, release() has been called and the server process does not
\* hold the flock, on the success path and on every exception path.
C3_ReleasedOnReturn ==
    \A c \in AllConns :
        (cmd[c].pc = "respond" /\ cmd[c].got) =>
            (cmd[c].rel /\ flock # "remote" /\ lock_fd["remote"] = "None")

\* C3 witness: a handler that acquired the lock returns an error raised by
\* its collaborator.
C3_Witness ==
    \E c \in AllConns :
        /\ cmd[c].pc = "respond" /\ cmd[c].got /\ cmd[c].rel
        /\ cmd[c].resp.status = "error"
        /\ servo_controller = "None"

\* C4: with a token configured, a command is in progress on a connection
\* (handle_command was invoked, or the message loop was entered) only if the
\* first message of that connection was a JSON object carrying exactly the
\* configured token; a command sent first without a token is not executed.
C4_NoDispatchBeforeAuth ==
    \A c \in AllConns :
        (cmd[c].pc # "idle" \/ conn[c] = "open") =>
            (first_msg[c].json = "object" /\ first_msg[c].token = api_token)

\* C4 witness: a status request is being handled on an authenticated
\* connection while another connection sent a command as first message.
C4_Witness ==
    \E c \in AllConns, d \in AllConns :
        /\ cmd[c].pc = "body" /\ cmd[c].action = "get_status"
        /\ first_msg[c].token = "good"
        /\ first_msg[d].action = "get_status" /\ conn[d] = "closed"

ValidAuth(m) == m.json = "object" /\ m.token = api_token

\* C5: every first message that is not a valid token message (or the
\* absence of one for 5 s) is answered with an error reply, after which the
\* connection is closed and removed from the active set.
C5_FailedAuthAnswered ==
    \A c \in AllConns :
        (first_msg[c].json # "none" /\ ~ValidAuth(first_msg[c])) =>
            \/ conn[c] = "auth_error" /\ c \in active_connections
            \/ conn[c] = "closed" /\ auth_reply[c] = "error" /\ c \notin active_connections

\* C6: the active set never exceeds max_connections; a connection arriving
\* at the ceiling goes to the rejection reply, is not added, and its
\* arrival and its rejection leave the active set and the rate limiter
\* state unchanged.
C6_ConnectionCeiling ==
    [][ /\ Cardinality(active_connections') <= max_connections
        /\ \A c \in AllConns :
              /\ (conn[c] = "closed" /\ conn'[c] # "closed" /\
                  Cardinality(active_connections) >= max_connections)
                  => /\ conn'[c] = "reject"
                     /\ UNCHANGED <<active_connections, request_history, violations>>
              /\ conn[c] = "reject"
                  => /\ c \notin active_connections
                     /\ conn'[c] \in {"reject", "closed"}
                     /\ conn'[c] = "closed" =>
                           UNCHANGED <<active_connections, request_history, violations>>
      ]_vars

\* C6 witness: a connection is being rejected while max_connections others
\* are active, one of them with recorded requests.
C6_Witness ==
    /\ \E c \in AllConns : conn[c] = "reject"
    /\ Cardinality(active_connections) = max_connections
    /\ \E d \in active_connections : Len(request_history[d]) > 0

\* C7: the recorded history never holds more than requests_per_minute
\* timestamps; a denial happens with requests_per_minute pruned entries
\* recorded, records nothing, and its message is never parsed, validated
\* or dispatched.
C7_RateLimit ==
    \A c \in AllConns :
        /\ Len(request_history[c]) <= requests_per_minute
        /\ cmd[c].resp.error = "Rate limit exceeded" =>
              /\ cmd[c].pc = "respond"
              /\ cmd[c].action = "none"
              /\ Len(request_history[c]) = requests_per_minute
              /\ \A i \in DOMAIN request_history[c] :
                    request_history[c][i] >= now - window_seconds

\* C7 witness: a denial is about to be sent.
C7_Witness ==
    \E c \in AllConns :
        /\ cmd[c].resp.error = "Rate limit exceeded"
        /\ Len(request_history[c]) = requests_per_minute
        /\ now > 0

\* C8: the backoff announced on the v-th violation is 10, 20, 40, 80, 160
\* for v = 1..5 and 300 from the sixth violation on.
C8_Backoff ==
    \A c \in AllConns :
        cmd[c].resp.error = "Rate limit exceeded" =>
            /\ violations[c] >= 1
            /\ cmd[c].resp.detail =
                  IF violations[c] <= 5
                  THEN <<10, 20, 40, 80, 160>>[violations[c]]
                  ELSE 300

\* C8 witness: a violation past the sixth announces the cap.
C8_Witness ==
    \E c \in AllConns :
        /\ cmd[c].resp.error = "Rate limit exceeded"
        /\ violations[c] > 6
        /\ cmd[c].resp.detail = 300

OlderThanWindow(c) ==
    \A i \in DOMAIN request_history[c] : request_history[c][i] < now - window_seconds

FullWindow(c) ==
    /\ Len(request_history[c]) = requests_per_minute
    /\ \A i \in DOMAIN request_history[c] : request_history[c][i] >= now - window_seconds

\* C9: a request received with requests_per_minute requests recorded inside
\* the window is denied with a positive retry-after value; a request
\* received when every recorded request is older than the window is
\* allowed and recorded, whatever the violation counter and the backoff
\* announced before.
C9_Recovery ==
    [][ \A c \in AllConns :
           (conn[c] = "open" /\ cmd[c].pc = "idle" /\ cmd'[c].pc # "idle") =>
              /\ FullWindow(c) =>
                    /\ cmd'[c].resp.error = "Rate limit exceeded"
                    /\ cmd'[c].resp.detail > 0
              /\ OlderThanWindow(c) =>
                    /\ cmd'[c].resp.error # "Rate limit exceeded"
                    /\ request_history'[c] = <<now>>
                    /\ violations'[c] = violations[c]
      ]_vars

\* C9 witness: after six denials (backoff 300 s announced) and one window
\* and a second, the next request has been allowed.
C9_Witness ==
    \E c \in AllConns :
        /\ violations[c] >= 6
        /\ now = window_seconds + 1
        /\ request_history[c] = <<now>>
        /\ cmd[c].action = "get_status"

NamesAnAction(command_action) == command_action \notin {"absent", "empty", "nonstring", "none"}

\* C10: handle_command applied to a command whose action is outside
\* ALLOWED_ACTIONS returns an error response (naming the action, when the
\* command carries an action name), starts no handler, and leaves the lock
\* and every device handle untouched.
C10_Whitelist ==
    [][ \A c \in AllConns :
           (cmd[c].pc = "idle" /\ cmd'[c].pc # "idle" /\
            cmd'[c].action \notin (ALLOWED_ACTIONS \cup {"none"})) =>
              /\ cmd'[c].pc = "respond"
              /\ ~cmd'[c].got
              /\ cmd'[c].resp.status = "error"
              /\ NamesAnAction(cmd'[c].action) =>
                    /\ cmd'[c].resp.error = "Unknown action"
                    /\ cmd'[c].resp.detail = cmd'[c].action
              /\ UNCHANGED <<lockVars, devVars>>
      ]_vars

\* C10 witness: the error naming an unknown action is about to be sent
\* after the server has opened the camera for an earlier command.
C10_Witness ==
    \E c \in AllConns :
        /\ cmd[c].pc = "respond"
        /\ cmd[c].action = "bogus"
        /\ cmd[c].resp.error = "Unknown action"
        /\ camera_manager = "open"

SpeakText(m) ==
    m.json = "object" /\ m.action = "speak" /\ m.params = "dict" /\ m.text_kind = "str"

\* C11: a speak command whose text is longer than MAX_TEXT_LEN is answered
\* with the 'exceeds maximum length' error without starting the handler,
\* taking the lock or touching a device handle, up to and including the
\* sending of that answer; a speak command whose text is exactly
\* MAX_TEXT_LEN long is dispatched to the speak handler.
C11_SpeakLengthBound ==
    [][ \A c \in AllConns :
           /\ (cmd[c].pc = "idle" /\ cmd'[c].pc # "idle" /\ SpeakText(message'[c]) /\
               cmd'[c].resp.error # "Rate limit exceeded") =>
                 /\ message'[c].text_len > MAX_TEXT_LEN =>
                       /\ cmd'[c].pc = "respond"
                       /\ cmd'[c].resp =
                             ErrorResponse("Parameter 'text' exceeds maximum length", "")
                       /\ ~cmd'[c].got
                       /\ UNCHANGED <<lockVars, devVars>>
                 /\ message'[c].text_len = MAX_TEXT_LEN =>
                       /\ cmd'[c].pc = "open"
                       /\ cmd'[c].action = "speak"
           /\ (cmd[c].resp.error = "Parameter 'text' exceeds maximum length" /\
               cmd'[c] # cmd[c]) =>
                 /\ cmd[c].pc = "respond" /\ cmd'[c].pc = "idle"
                 /\ UNCHANGED <<lockVars, devVars>>
      ]_vars

\* C11 witness: a text of MAX_TEXT_LEN + 1 characters is being refused on a
\* server that has spoken before (the servo handle is open) and holds no
\* lock.
C11_Witness ==
    \E c \in AllConns :
        /\ cmd[c].pc = "respond"
        /\ message[c].action = "speak" /\ message[c].text_len = MAX_TEXT_LEN + 1
        /\ cmd[c].resp.error = "Parameter 'text' exceeds maximum length"
        /\ servo_controller = "open"
        /\ flock = "none"

\* A malformed message (not JSON, or JSON that is not an object), or a
\* command refused by validation: unknown or missing action, or an invalid
\* parameter.
ProtocolError(m) ==
    \/ m.json \in {"notjson", "list", "number"}
    \/ m.json = "object" /\ validate_command(m) # NoError

\* C12: every message with a protocol error received on an authenticated
\* connection is answered with one status:error response, and the
\* connection stays open for the next message once the answer is sent.
C12_ProtocolErrorsReported ==
    [][ \A c \in AllConns :
           /\ (conn[c] = "open" /\ message'[c] # message[c] /\
               message'[c] # NoMessage /\ ProtocolError(message'[c])) =>
                 /\ conn'[c] = "open"
                 /\ cmd'[c].pc = "respond"
                 /\ cmd'[c].resp.status = "error"
           /\ (cmd[c].pc = "respond" /\ cmd'[c] # cmd[c]) =>
                 /\ cmd'[c].pc = "idle"
                 /\ conn'[c] = "open"
                 /\ message'[c] = NoMessage
      ]_vars

\* C20: on one connection a message is taken only when the previous one has
\* been answered, taking it starts its handling, the handling ends only by
\* sending its response, and a received message is dropped only by that
\* response: one response per message, in the order received.
C20_PerConnectionOrdering ==
    [][ \A c \in AllConns :
           /\ (message'[c] # message[c] /\ message'[c] # NoMessage) =>
                 /\ message[c] = NoMessage
                 /\ cmd[c].pc = "idle"
                 /\ cmd'[c].pc # "idle"
           /\ (cmd[c].pc # "idle" /\ cmd'[c].pc = "idle") =>
                 /\ cmd[c].pc = "respond"
                 /\ message'[c] = NoMessage
           /\ (message[c] # NoMessage /\ message'[c] = NoMessage) =>
                 cmd[c].pc = "respond"
      ]_vars

\* The remote commands that open or operate a peripheral.
CAMERA_ACTIONS == {"capture_snapshot", "analyze_scene", "detect_faces"}
PERIPHERAL_ACTIONS == CAMERA_ACTIONS \cup LOCK_ACTIONS

\* C13: the body of a remote command that opens or operates a peripheral
\* runs only while the server process holds the hardware lock; in
\* particular it never runs while the local process holds the lock.
C13_PeripheralsUnderLock ==
    [][ \A c \in AllConns :
           (cmd[c].pc = "body" /\ cmd'[c] # cmd[c] /\
            cmd[c].action \in PERIPHERAL_ACTIONS) =>
               ~(flock = "local" /\ LocalHolds)
      ]_vars

\* C14: when acquire returns False the local loop abandons the interaction
\* at once, and the remote handler returns the 'Hardware busy' error which
\* is then sent, in both cases without any operation on a peripheral: no
\* device handle changes and nothing is written to the display.
C14_BusyWithoutSideEffects ==
    [][ /\ (lpc = "flock" /\ lpc' \notin {"flock", "open", "hold"}) => lpc' = "idle"
        /\ lpc' # "notice"
        /\ \A c \in AllConns :
              /\ (cmd[c].pc = "flock" /\ cmd'[c].pc \notin {"flock", "open", "body"}) =>
                    /\ cmd'[c].pc = "respond"
                    /\ cmd'[c].resp.error = "Hardware busy - could not acquire lock"
                    /\ ~cmd'[c].got
                    /\ UNCHANGED devVars
              /\ (cmd[c].resp.error = "Hardware busy - could not acquire lock" /\
                  cmd'[c] # cmd[c]) =>
                    /\ cmd'[c].pc = "idle"
                    /\ UNCHANGED devVars
      ]_vars

LocalAcquiring == lpc \in {"open", "flock"}
RemoteAcquiring(c) == cmd[c].pc \in {"open", "flock"}

\* C15: every call of acquire(timeout) returns: the time slept never
\* exceeds the timeout, False is returned only from a failed attempt made
\* with the timeout reached, such an attempt always returns False (so a
\* call with timeout 0 makes one attempt and returns), and no call stays in
\* the loop for ever.
C15_BoundedAcquire ==
    /\ [](ltries <= ltimeout)
    /\ [](\A c \in AllConns : cmd[c].tries <= Timeout(cmd[c].action))
    /\ [][ /\ (lpc = "flock" /\ lpc' \notin {"flock", "open", "hold"}) =>
                 (flock # "none" /\ ltries >= ltimeout)
           /\ (lpc = "flock" /\ lpc' # "flock" /\ flock # "none" /\ ltries >= ltimeout) =>
                 (lpc' \in {"idle", "notice"} /\ ~is_locked'["local"])
           /\ \A c \in AllConns :
                 /\ (cmd[c].pc = "flock" /\ cmd'[c].pc \notin {"flock", "open", "body"}) =>
                       (flock # "none" /\ cmd[c].tries >= Timeout(cmd[c].action))
                 /\ (cmd[c].pc = "flock" /\ cmd'[c].pc # "flock" /\ flock # "none" /\
                     cmd[c].tries >= Timeout(cmd[c].action)) =>
                       (cmd'[c].pc = "respond" /\ ~cmd'[c].got)
         ]_vars
    /\ (LocalAcquiring ~> ~LocalAcquiring)
    /\ \A c \in Conns : (RemoteAcquiring(c) ~> ~RemoteAcquiring(c))

\* C15 witness: a call with timeout 0 is making its one attempt while a
\* remote command holds the lock.
C15_Witness ==
    /\ lpc = "flock" /\ ltimeout = 0 /\ ltries = 0
    /\ flock = "remote" /\ lock_fd["local"] = "open"

\* C16: a step of the caller that is a release() without a hold (acquire
\* never called, acquire returned False, or the lock already released)
\* changes nothing: not the coordinator's fields, and not the lock another
\* process holds.
C16_ReleaseIdempotent ==
    [][ (lpc \in {"idle", "released"} /\ lpc' = "released" /\ UNCHANGED <<cmd, running>>)
            => UNCHANGED lockVars ]_vars

\* C16 witness: release() has returned in the local process, which holds
\* nothing, while a remote command holds the lock.
C16_Witness ==
    /\ lpc = "released"
    /\ flock = "remote" /\ is_locked["remote"] /\ lock_content = "remote"
    /\ ~is_locked["local"] /\ lock_fd["local"] = "None"

\* C17: a remote acquisition that finds the lock held by the local process
\* keeps retrying for as long as its timeout (5 s, 10 s for speak) has not
\* elapsed; an attempt made once the local process has released succeeds,
\* whatever the time already waited, and the command's body runs next;
\* 'Hardware busy' is returned only from a failed attempt made with the
\* whole timeout elapsed.
C17_RemoteOutlastsLocal ==
    [][ \A c \in AllConns :
           (cmd[c].pc = "flock" /\ cmd'[c] # cmd[c]) =>
              /\ flock = "none" =>
                    (cmd'[c].pc = "body" /\ cmd'[c].got /\ flock' = "remote")
              /\ (flock # "none" /\
                  cmd[c].tries < (IF cmd[c].action = "speak"
                                  THEN SPEAK_TIMEOUT ELSE REMOTE_TIMEOUT)) =>
                    (cmd'[c].pc = "open" /\ cmd'[c].tries = cmd[c].tries + 1)
              /\ cmd'[c].pc = "respond" =>
                    /\ cmd'[c].resp.error = "Hardware busy - could not acquire lock"
                    /\ flock = "local"
                    /\ cmd[c].tries >= (IF cmd[c].action = "speak"
                                         THEN SPEAK_TIMEOUT ELSE REMOTE_TIMEOUT)
      ]_vars

\* C17 witness: a remote command has waited longer than the local timeout
\* for a lock the local process held, the local process has released, and
\* the command is about to make its next attempt.
C17_Witness ==
    \E c \in AllConns :
        /\ cmd[c].pc = "flock" /\ running = c
        /\ cmd[c].tries > LOCAL_TIMEOUT
        /\ flock = "none" /\ lpc = "idle"

\* C18: the lock leaves its holder only by the holder's own release(), a
\* caller obtains the lock only when nobody holds it, and the role of the
\* caller decides only the annotation written.
C18_NotPreemptive ==
    [][ /\ (flock = "local" /\ flock' # "local") =>
               (lpc = "finally" /\ flock' = "none")
        /\ (flock = "remote" /\ flock' # "remote") =>
               /\ flock' = "none"
               /\ \E c \in AllConns : cmd[c].pc = "finally" /\ cmd'[c].rel
        /\ (flock' # flock /\ flock' # "none") =>
               (flock = "none" /\ lock_content' = flock')
      ]_vars

\* C19: whenever a process holds the lock, the lock file's content is the
\* annotation of that holder, also while another process attempts and
\* fails to acquire the lock.
C19_HolderAnnotation == flock # "none" => lock_content = flock

\* The command of connection c is between two attempts of an acquisition
\* that found the lock held by the local process.
RetryingAcquire(c) ==
    /\ cmd[c].pc \in {"open", "flock"}
    /\ cmd[c].tries > 0
    /\ flock = "local"

\* C21: while the command of one connection is retrying the acquisition of
\* the lock the local process holds, the server can take a new connection,
\* receive the first message of a connection waiting to authenticate, send
\* the authentication reply, and take a get_status request of another
\* connection.
C21_LockWaitsYield ==
    \A c \in Conns :
        RetryingAcquire(c) =>
            \A d \in Conns \ {c} :
                /\ conn[d] = "closed" => ENABLED Accept(d)
                /\ conn[d] = "auth" =>
                      ENABLED AuthRecv(d, [Message("object") EXCEPT !.token = "good"])
                /\ conn[d] = "auth_ok" => ENABLED AuthSuccessSend(d)
                /\ (conn[d] = "open" /\ cmd[d].pc = "idle") =>
                      ENABLED Receive(d, Command("get_status"))

\* The response of a command whose action raised.
ActionFailed(c) == cmd[c].resp.status = "error" /\ cmd[c].resp.error = "Failed"

\* C22: the body of a validated command always ends in a response for that
\* request, an error response when the action raised; the error response
\* passes the handler's finally block unchanged and is sent, the connection
\* stays open and admitted throughout, and once the response is sent the
\* connection is back in its loop where the next request is taken.
C22_ActionErrorsContained ==
    /\ [][ \A c \in AllConns :
              /\ (cmd[c].pc = "body" /\ cmd'[c] # cmd[c]) =>
                    /\ cmd'[c].pc \in {"finally", "respond"}
                    /\ cmd'[c].resp.status \in {"success", "error"}
                    /\ conn'[c] = "open" /\ c \in active_connections'
              /\ (ActionFailed(c) /\ cmd'[c] # cmd[c]) =>
                    /\ conn'[c] = "open" /\ c \in active_connections'
                    /\ \/ /\ cmd[c].pc = "finally"
                          /\ cmd'[c].pc = "respond"
                          /\ cmd'[c].resp = cmd[c].resp
                       \/ /\ cmd[c].pc = "respond"
                          /\ cmd'[c].pc = "idle"
                          /\ running' = 0
         ]_vars
    /\ [](\A c \in AllConns :
             (conn[c] = "open" /\ cmd[c].pc = "idle" /\ running = 0) =>
                 ENABLED Receive(c, Command("get_status")))

\* C22 witness: the second request of a connection failed in its action,
\* the lock is released and the error response is about to be sent on the
\* open connection.
C22_Witness ==
    \E c \in AllConns :
        /\ cmd[c].pc = "respond" /\ ActionFailed(c)
        /\ cmd[c].got /\ cmd[c].rel
        /\ conn[c] = "open"
        /\ Len(request_history[c]) > 1
        /\ flock = "none"

\* C23: cleanup() never raises, and when it has returned the step of every
\* initialized resource has been entered, in the order camera, servos,
\* display, voice handler, expression engine, whichever of them raised;
\* every resource whose step did not raise is released.
C23_CleanupIsolation ==
    /\ main_pc # "raised"
    /\ main_pc \in {"done", "exited"} =>
          /\ cleanup_attempted = InitializedSteps
          /\ cleanup_raised \subseteq Initialized
          /\ "camera" \notin cleanup_raised => camera_manager # "open"
          /\ "servos" \notin cleanup_raised => servo_controller # "open"
          /\ "display" \notin cleanup_raised => arduino_display # "connected"
          /\ "expression" \notin cleanup_raised => expression_engine # "ready"

\* C23 witness: cleanup() has returned after the release of the camera
\* raised: all five steps were entered, the servos and the display are
\* closed.
C23_Witness ==
    /\ main_pc = "done"
    /\ "camera" \in cleanup_raised /\ camera_manager = "open"
    /\ Len(cleanup_attempted) = Len(CLEANUP_STEPS)
    /\ servo_controller = "closed" /\ arduino_display = "closed"

\* C24: the time shutdown_gracefully spends suspended, in the sends of the
\* notices and in the wait for the closes together, never exceeds the close
\* timeout, whatever the clients do.
C24_BoundedShutdown == waited <= CLOSE_TIMEOUT

\* C25: once main() has resumed from the signal and started
\* shutdown_gracefully, no connection is added to the active set.
C25_NoAdmissionAfterShutdown ==
    [][ \A c \in AllConns :
           (main_pc # "wait" /\ c \notin active_connections) =>
               c \notin active_connections'
      ]_vars

\* C26: when shutdown_gracefully has completed, the server process holds no
\* hardware lock.
C26_ShutdownReleasesLock ==
    main_pc = "done" => (~is_locked["remote"] /\ flock # "remote")

\* C27: when the task running start() has failed while main() waits for the
\* shutdown event, main() has a step to take (towards cleanup and exit)
\* without any signal.
C27_FatalPathCleansUp ==
    (server_task = "failed" /\ main_pc = "wait" /\ running = 0) => ENABLED MainStep

Pending == {t \in 1..MaxTimers : timers[t].state = "waiting"}

\* C28: at most one detach timer is pending; a movement made outside speech
\* animation leaves exactly one pending timer, set to the whole
\* detach_delay; and a timer detaches the servos only when no movement is
\* under way and detach_delay has passed since the last one.
C28_IdleDetach ==
    /\ [](Cardinality(Pending) <= 1)
    /\ [][ /\ (move.pc = "moving" /\ move'.pc = "idle" /\ ~speech_animation_active) =>
                 /\ Pending' = {detach_timer'}
                 /\ timers'[detach_timer'].left = DETACH_DELAY
           /\ (\E t \in Pending : timers'[t].state = "fired") =>
                 /\ move.pc # "moving"
                 /\ idle_for >= DETACH_DELAY
         ]_vars

\* C29: a servo that goes from detached to attached is set to its last
\* commanded angle: the angle current_* held before the step or, at the
\* end of a movement of that servo, the angle the movement was called with.
C29_ReattachRestores ==
    [][ \A s \in Servos :
           (servo_value[s] = Detached /\ servo_value'[s] # Detached) =>
               \/ servo_value'[s] = current_angle[s]
               \/ move.pc = "moving" /\ move.servo = s /\ servo_value'[s] = move.angle
      ]_vars
\* The peripherals the server has opened and not closed.
Held ==
    {d \in {"camera", "servos", "display"} : Handle(d) \in {"open", "connected"}}

\* C30: a peripheral the server opened to serve a command does not stay
\* held without use: once the command has returned and while no further
\* command arrives, the server comes to release it.
C30_HandOff ==
    \A d \in {"camera", "servos", "display"} :
        (d \in Held /\ cmd[1].pc = "idle") ~> (d \notin Held \/ cmd[1].pc # "idle")

\* C31: no two operations write servo positions concurrently: while a
\* movement is under way under movement_lock, no other thread sets a servo
\* to a position or changes the commanded angles.
C31_MovementsSerialized ==
    [][ (move.pc = "moving" /\ move'.pc = "moving") =>
            /\ current_angle' = current_angle
            /\ \A s \in Servos :
                  servo_value'[s] \in {servo_value[s], Detached}
      ]_vars

\* C32: a get_status request is never in acquire() and never holds the
\* lock; taking the request and running its handler leave the lock and the
\* device handles as they were, and the handler ends in the success
\* response, whoever holds the lock.
C32_StatusLockFree ==
    /\ [](\A c \in AllConns :
             cmd[c].action = "get_status" =>
                 /\ cmd[c].pc \in {"body", "respond"}
                 /\ ~cmd[c].got /\ cmd[c].tries = 0)
    /\ [][ \A c \in AllConns :
              /\ (cmd[c].pc = "idle" /\ cmd'[c].action = "get_status") =>
                    /\ cmd'[c].pc = "body"
                    /\ UNCHANGED <<lockVars, devVars>>
              /\ (cmd[c].action = "get_status" /\ cmd[c].pc = "body"
                    /\ cmd'[c] # cmd[c]) =>
                    /\ cmd'[c].pc = "respond"
                    /\ cmd'[c].resp = OkResponse
                    /\ UNCHANGED <<lockVars, devVars>>
         ]_vars

\* C32 witness: an authenticated connection's get_status has its success
\* response while the local process holds the lock.
C32_Witness ==
    \E c \in AllConns :
        /\ conn[c] = "open"
        /\ auth_reply[c] # "none"
        /\ cmd[c].action = "get_status" /\ cmd[c].pc = "respond"
        /\ cmd[c].resp = OkResponse
        /\ LocalHolds /\ flock = "local"

\* C33: the count of a blink command is checked against an upper bound
\* before dispatch: a count above the bound (MaxCount, the largest count a
\* client of the model sends, stands for it) is not handed to the handler,
\* so no dispatched blink has that many repetitions to perform.
C33_BlinkCountBounded ==
    \A c \in AllConns :
        (cmd[c].action = "blink" /\ cmd[c].pc # "respond") => cmd[c].left < MaxCount

\* C34: a connection that has ended has no request history and no
\* violation counter left, whichever way it ended, and a connection that
\* is admitted starts with an empty window and zero violations.
C34_RateStateDiscarded ==
    /\ [](\A c \in AllConns :
             conn[c] = "closed" => (request_history[c] = <<>> /\ violations[c] = 0))
    /\ [][ \A c \in AllConns :
              (c \notin active_connections /\ c \in active_connections') =>
                  (request_history'[c] = <<>> /\ violations'[c] = 0)
         ]_vars

\* C34 witness: a second window has begun, and an authenticated connection
\* has ended on a handler error, its state discarded, while the server goes
\* on serving.
C34_Witness ==
    \E c \in AllConns :
        /\ conn[c] = "closed" /\ auth_reply[c] = "authenticated"
        /\ message[c].json = "list"
        /\ request_history[c] = <<>> /\ violations[c] = 0
        /\ now > 0
        /\ main_pc = "wait"

\* C39: the violation counter of a connection decreases in no step but the
\* one that ends the connection, which sets it to zero; an allowed request
\* and the passing of time leave it as it is, and every denial announces
\* the backoff of the whole count.
C39_ViolationsNeverDecrease ==
    /\ [][ \A c \in AllConns :
              /\ violations'[c] < violations[c] =>
                    (conn[c] # "closed" /\ conn'[c] = "closed" /\ violations'[c] = 0)
              /\ (conn[c] = "open" /\ conn'[c] = "open") =>
                    violations'[c] \in {violations[c], violations[c] + 1}
         ]_vars
    /\ [](\A c \in AllConns :
             cmd[c].resp.error = "Rate limit exceeded" =>
                 cmd[c].resp.detail = backoff_seconds(violations[c]))

\* C39 witness: after two denials and the passing of a window, a request
\* of the same connection has been allowed, and the counter is still two.
C39_Witness ==
    \E c \in AllConns :
        /\ conn[c] = "open"
        /\ violations[c] = 2
        /\ now > window_seconds
        /\ cmd[c].action = "get_status" /\ cmd[c].pc = "respond"
        /\ cmd[c].resp = OkResponse
        /\ request_history[c] = <<now>>

\* C35: once the finally block of handle_interaction has called release(),
\* and while the local process is outside handle_interaction, the local
\* process holds no lock, and outside handle_interaction in_interaction is
\* False, whichever way the try block was left.
C35_LocalAlwaysReleases ==
    /\ lpc \in {"idle", "reset"} =>
          (flock # "local" /\ ~is_locked["local"] /\ lock_fd["local"] = "None")
    /\ lpc = "idle" => ~in_interaction

\* C35 witness: the interaction was left by a return from inside the try
\* block, handle_interaction has returned, and the server has taken the
\* lock.
C35_Witness ==
    /\ lpc = "idle" /\ ~in_interaction
    /\ exit_path = "no_transcription"
    /\ flock = "remote" /\ cmd[1].got

C37_AnimationReleasesLock ==
    (movement_lock = "animation") ~> (movement_lock # "animation")

\* C38: once close() has returned, no detach timer made by an earlier
\* movement is pending.
C38_CloseCancelsTimer == IsClosed => Pending = {}

=============================================================================
